---------------------------- MODULE Spec2Model ----------------------------
(***************************************************************************)
(* A model of gtop: the GPU telemetry source (gpu.py), the process         *)
(* enumerator (process.py), the container resolver (docker_util.py) and    *)
(* the refresh scheduler of the Textual application (ui.py).               *)
(*                                                                         *)
(* External collaborators (the NVML binding, psutil, the docker client,    *)
(* the control-group file) are the environment: every call to one of them  *)
(* has an outcome the model draws from a small set.  A call either         *)
(* succeeds ("ok"), fails with the error type the library documents        *)
(* ("NVMLError", "NoSuchProcess", "AccessDenied") or fails with an         *)
(* exception of any other type ("Other").                                  *)
(***************************************************************************)
EXTENDS Integers, Sequences, FiniteSets, TLC

\* ------------------------------------------------------------------ bounds
\* Devices the driver may report in the telemetry specification.
MaxDevices == 3
\* Devices the driver may report in the application specification.
MaxGpus == 2
\* Entries in the compute and graphics lists together (process enumerator).
MaxProcs == 2
\* Processes the driver reports for a GPU in the application specification.
MaxUiProcs == 1
\* Pending row events in the application's message queue.
MaxQueue == 1
\* Times the container runtime may be asked for a handle.
MaxCalls == 4
\* Pieces in a port string handed to find_triton_server_url.
MaxPortsLen == 3
\* Models in the repository index of an inference server.
MaxModels == 2

\* ------------------------------------------------------- program constants
\* demo.py: `for idx in range(4)`.
DemoGpuCount == 4
\* demo.py: `for i in range(10)`.
DemoProcCount == 10

VARIABLES
    \* --- telemetry source (gpu.py): the last call and what it produced
    gEnv,       \* the driver's behaviour during the call
    gRes,       \* [exc, ret]: the exception that escaped, or the list returned
    \* --- process enumerator (process.py), one call followed step by step
    pPc,        \* "idle" | "loop" | "done" | "raised"
    pEnv,       \* the call's argument and the driver's behaviour
    nvml_procs, \* the merged compute + graphics list (process.py:32-38)
    pIdx,       \* position of the `for np in nvml_procs` loop
    seen,       \* process.py:44
    procs,      \* process.py:28, the list being built and returned
    cur,        \* what the environment did for the entry handled last
    \* --- container resolver (docker_util.py)
    docker_client,  \* docker_util._docker_client: "None" or a handle number
    fromEnvCalls,   \* handles the runtime has been asked for (docker.from_env)
    \* --- application (ui.py)
    tableRows,  \* GPUApp.table: first cell of each row
    tableCursor,\* GPUApp.table.cursor_row
    procRows,   \* GPUApp.proc_table: <<GPU cell, PID cell>> of each row
    procCursor, \* GPUApp.proc_table.cursor_row
    queue,      \* row events posted and not yet handled
    escaped,    \* an exception left a handler: the application is gone
    demoMode,   \* DEMO_MODE, set once by main() before the application starts
    last,       \* the handler that ran last, and what it fetched
    \* --- the other functions, called on their own
    fnCall,     \* the call made last: function, arguments, what the world did
    fnRes,      \* [exc, ret]: the exception that escaped, or the value returned
    acquireFailed,  \* docker.from_env() has raised in some call so far
    \* --- the command line (main.py)
    cli         \* main(): where it is, its arguments, what it fetched and wrote

vars == <<gEnv, gRes, pPc, pEnv, nvml_procs, pIdx, seen, procs, cur,
          docker_client, fromEnvCalls,
          tableRows, tableCursor, procRows, procCursor, queue, escaped,
          demoMode, last, fnCall, fnRes, acquireFailed, cli>>

gpuVars == <<gEnv, gRes>>
procVars == <<pPc, pEnv, nvml_procs, pIdx, seen, procs, cur>>
dockerVars == <<docker_client, fromEnvCalls>>
uiVars == <<tableRows, tableCursor, procRows, procCursor, queue, escaped,
            demoMode, last>>
fnVars == <<fnCall, fnRes, acquireFailed>>
cliVars == <<cli>>

\* ----------------------------------------------------------- call results
\* A call returns a value or lets an exception escape to its caller.
Ret(v) == [exc |-> "none", ret |-> v]
Raise(kind) == [exc |-> kind, ret |-> <<>>]

\* ------------------------------------------------- str(int) and int(str)
Digits == <<"0", "1", "2", "3", "4", "5", "6", "7", "8", "9">>

RECURSIVE Str(_)
\* str(n) for n >= 0: the decimal digits, most significant first.
Str(n) == IF n < 10 THEN <<Digits[n + 1]>>
                    ELSE Str(n \div 10) \o <<Digits[(n % 10) + 1]>>

DigitVal(c) == CHOOSE d \in 0..9 : Digits[d + 1] = c

IsDigit(c) == \E d \in 0..9 : Digits[d + 1] = c

RECURSIVE DigitsVal(_)
DigitsVal(s) == IF Len(s) = 0 THEN 0
                ELSE 10 * DigitsVal(SubSeq(s, 1, Len(s) - 1)) + DigitVal(s[Len(s)])

\* int(s): the value, or ValueError when s is not a run of digits.
ParseInt(s) == IF Len(s) > 0 /\ \A i \in 1..Len(s) : IsDigit(s[i])
               THEN Ret(DigitsVal(s))
               ELSE Raise("ValueError")

\* The cell "-" of the placeholder rows.
Dash == <<"-">>

\* ======================================================================
\* GPU telemetry source: gpu.py, demo.py
\* ======================================================================
\* How a call into the driver library can fail: with the library's own error
\* type, or with any other exception.  "ok" is the call that answers.
NvmlFailKinds == {"NVMLError", "Other"}

\* The reads of one device, in the order of gpu.py:39-47.
Reads == <<"handle", "name", "util", "mem", "temp", "power">>

\* nvmlDeviceGetPowerUsage answers in milliwatts.  The model keeps a power in
\* milliwatts too: `reading / 1000.0` watts is the same number, scaled.
PowerReadings == {0, 75000}

\* One device during one call: the first read that fails (the reads after it
\* are not reached) and how, and what the power read answers otherwise.
DevBehaviours ==
    {[failAt |-> "none", kind |-> "none", mw |-> m] : m \in PowerReadings}
    \cup {[failAt |-> Reads[i], kind |-> k, mw |-> 0] :
            i \in 1..Len(Reads), k \in NvmlFailKinds}

\* random.uniform(10.0, 250.0) of the demo generator, its two ends.
DemoPowers == {10000, 250000}

GpuEnv(demo, binding, init, countOut, count, dev) ==
    [demo |-> demo, binding |-> binding, init |-> init,
     countOut |-> countOut, count |-> count, dev |-> dev]

\* The calls that end before the device loop, and the demo calls.
GpuEnvs ==
    {GpuEnv(TRUE, TRUE, "ok", "ok", 0, dev) :
        dev \in [1..DemoGpuCount ->
                   {[failAt |-> "none", kind |-> "none", mw |-> m] : m \in DemoPowers}]}
    \cup {GpuEnv(FALSE, FALSE, "ok", "ok", 0, <<>>)}
    \cup {GpuEnv(FALSE, TRUE, k, "ok", 0, <<>>) : k \in NvmlFailKinds}
    \cup {GpuEnv(FALSE, TRUE, "ok", k, 0, <<>>) : k \in NvmlFailKinds}

\* A live call in which the driver counts c devices behaving as dev.
DeviceEnv(c, dev) == GpuEnv(FALSE, TRUE, "ok", "ok", c, dev)

\* A record numbered from one instead of from zero.
OneBasedIndex(idx, power) == [index |-> idx + 1, power |-> power]

\* GPUStats(index=idx, ..., power=power): the fields the application reads
\* back are the index and the power; name, util, mem_used, mem_total and temp
\* are copies of what the driver answered.
GPUStats(idx, power) == [index |-> idx, power |-> power]

RECURSIVE DemoLoop(_, _, _)
DemoLoop(env, idx, stats) ==
    IF idx >= DemoGpuCount THEN stats
    ELSE DemoLoop(env, idx + 1, Append(stats, GPUStats(idx, env.dev[idx + 1].mw)))

\* demo.get_demo_gpu_stats
GetDemoGpuStats(env) == DemoLoop(env, 0, <<>>)

\* The power read without an except clause of its own.
PowerSkipsDevice(d) ==
    IF d.failAt = "power" THEN Raise(d.kind) ELSE Ret(d.mw)

\* gpu.py:46-49: the power read, with its own except clause.
ReadPower(d) ==
    IF d.failAt = "power"
    THEN (IF d.kind = "NVMLError" THEN Ret(0) ELSE Raise(d.kind))
    ELSE Ret(d.mw)

\* gpu.py:39-61: the body of the per-device try for device idx; the record,
\* or the exception that leaves the body.
ReadDevice(idx, d) ==
    IF d.failAt \notin {"none", "power"} THEN Raise(d.kind)
    ELSE LET p == ReadPower(d)
         IN  IF p.exc = "none" THEN Ret(GPUStats(idx, p.ret)) ELSE p

RECURSIVE DeviceLoop(_, _, _)
\* gpu.py:37-65: `except pynvml.NVMLError: continue`; any other exception
\* leaves the function.
DeviceLoop(env, idx, stats) ==
    IF idx >= env.count THEN Ret(stats)
    ELSE LET r == ReadDevice(idx, env.dev[idx + 1])
         IN  CASE r.exc = "none" -> DeviceLoop(env, idx + 1, Append(stats, r.ret))
               [] r.exc = "NVMLError" -> DeviceLoop(env, idx + 1, stats)
               [] OTHER -> r

\* get_gpu_stats without the except clause around nvmlInit.
InitFailureEscapes(env) ==
    IF env.demo THEN Ret(GetDemoGpuStats(env))
    ELSE IF ~env.binding THEN Ret(<<>>)
    ELSE IF env.init # "ok" THEN Raise(env.init)
    ELSE IF env.countOut = "NVMLError" THEN Ret(<<>>)
    ELSE IF env.countOut # "ok" THEN Raise(env.countOut)
    ELSE DeviceLoop(env, 0, <<>>)

\* gpu.get_gpu_stats
GetGpuStats(env) ==
    IF env.demo THEN Ret(GetDemoGpuStats(env))
    ELSE IF ~env.binding THEN Ret(<<>>)
    ELSE IF env.init = "NVMLError" THEN Ret(<<>>)
    ELSE IF env.init # "ok" THEN Raise(env.init)
    ELSE IF env.countOut = "NVMLError" THEN Ret(<<>>)
    ELSE IF env.countOut # "ok" THEN Raise(env.countOut)
    ELSE DeviceLoop(env, 0, <<>>)


NoCall == [exc |-> "nocall", ret |-> <<>>]

\* One call of get_gpu_stats, under any behaviour of the driver.
CallGetGpuStats ==
    /\ gRes = NoCall
    /\ \/ \E env \in GpuEnvs :
            /\ gEnv' = env
            /\ gRes' = GetGpuStats(env)
       \/ \E c \in 0..MaxDevices :
            \E dev \in [1..c -> DevBehaviours] :
               /\ gEnv' = DeviceEnv(c, dev)
               /\ gRes' = GetGpuStats(DeviceEnv(c, dev))
    /\ UNCHANGED <<procVars, dockerVars, uiVars>>
    /\ UNCHANGED <<fnVars, cliVars>>

\* The caller has the result and may call again.
GpuStatsTaken ==
    /\ gRes # NoCall
    /\ gRes' = NoCall
    /\ gEnv' = GpuEnv(FALSE, FALSE, "ok", "ok", 0, <<>>)
    /\ UNCHANGED <<procVars, dockerVars, uiVars>>
    /\ UNCHANGED <<fnVars, cliVars>>

\* ======================================================================
\* Container resolver: docker_util.py
\* ======================================================================
\* docker_util._docker_client is None (0 here) or a client handle (1, 2, ...:
\* the n-th handle the runtime handed out).
NoClient == 0

\* The container runtime during one call of get_container_info: whether
\* docker.from_env() succeeds, and what listing the containers and their
\* process tables gives for the pid.
Listings == {"throws", "found", "foundNoPorts", "notfound"}

DockerWorlds == [reachable : BOOLEAN, listing : Listings]

\* A Python string is a sequence of pieces of text here; "" is the empty one.
EmptyStr == <<>>

\* The sentinel ("", "").
NoContainer == <<EmptyStr, EmptyStr>>

\* get_docker_client without the test of the cached handle.
AsksRuntimeEveryCall(client, n, world) ==
    IF world.reachable
    THEN [client |-> n + 1, n |-> n + 1, got |-> TRUE]
    ELSE [client |-> NoClient, n |-> n + 1, got |-> FALSE]

\* docker_util.get_docker_client: the cached handle, or a new one from
\* docker.from_env(); `except Exception: return None` stores nothing.
\* n counts the calls of docker.from_env() so far.
GetDockerClient(client, n, world) ==
    IF client # NoClient THEN [client |-> client, n |-> n, got |-> TRUE]
    ELSE IF world.reachable
         THEN [client |-> n + 1, n |-> n + 1, got |-> TRUE]
         ELSE [client |-> NoClient, n |-> n + 1, got |-> FALSE]

\* docker_util.py:42-59: the name and the port string of the container whose
\* process table holds the pid.
ScanContainers(pid, world) ==
    CASE world.listing = "found" ->
            <<<<"ctr-">> \o Str(pid), <<"8000", "->", "8000/tcp">>>>
      [] world.listing = "foundNoPorts" -> <<<<"ctr-">> \o Str(pid), <<"<none>">>>>
      [] OTHER -> NoContainer

\* docker_util.get_container_info: never raises.
GetContainerInfo(pid, client, n, world) ==
    LET c == GetDockerClient(client, n, world)
    IN  [client |-> c.client, n |-> c.n,
         ret |-> IF c.got THEN ScanContainers(pid, world) ELSE NoContainer]

\* A call of get_container_info: its argument, what the runtime does during
\* it, and the handle, the count of docker.from_env() calls and the failures
\* so far as the call finds them.
ContainerCall(pid, world, client, n, failedBefore) ==
    [f |-> "get_container_info", pid |-> pid, world |-> world, client |-> client,
     n |-> n, failedBefore |-> failedBefore]

\* One call of get_container_info(pid), the runtime doing anything it can.
CallGetContainerInfo ==
    /\ docker_client # NoClient \/ fromEnvCalls < MaxCalls
    /\ \E pid \in 1..MaxProcs, world \in DockerWorlds :
          \E r \in {GetContainerInfo(pid, docker_client, fromEnvCalls, world)} :
             /\ docker_client' = r.client
             /\ fromEnvCalls' = r.n
             /\ fnCall' = ContainerCall(pid, world, docker_client, fromEnvCalls,
                                        acquireFailed)
             /\ fnRes' = [exc |-> "none", ret |-> r.ret]
             /\ acquireFailed' = (acquireFailed
                                    \/ (docker_client = NoClient /\ ~world.reachable))
    /\ UNCHANGED <<gpuVars, procVars, uiVars, cliVars>>


\* ======================================================================
\* Process enumerator: process.py, demo.py
\* ======================================================================
\* An entry of a driver list without a pid attribute: getattr(np, "pid", None).
NoPid == 0

Pids == 1..MaxProcs

\* The lists the driver may answer: entries of both lists together are at
\* most MaxProcs.
RECURSIVE SeqsUpTo(_, _)
SeqsUpTo(S, n) ==
    IF n = 0 THEN {<<>>}
    ELSE LET shorter == SeqsUpTo(S, n - 1)
         IN  shorter \cup {Append(q, x) : q \in shorter, x \in S}

\* The code reads a pid only to compare it with other pids and to copy it,
\* so lists that differ by a renaming of the pids behave alike: the lists
\* kept are those where each new pid is the smallest not used before.
Canonical(m) ==
    \A i \in 1..Len(m) :
        m[i] # NoPid =>
            m[i] <= 1 + Cardinality({m[j] : j \in 1..(i - 1)} \ {NoPid})

ListPairs ==
    {pr \in SeqsUpTo(Pids \cup {NoPid}, MaxProcs) \X SeqsUpTo(Pids \cup {NoPid}, MaxProcs) :
        Len(pr[1]) + Len(pr[2]) <= MaxProcs /\ Canonical(pr[1] \o pr[2])}

\* The segments a control-group file is made of.  The file of a pod is under
\* "kubepods"; docker, containerd and lxc name their own segments.
CgroupTexts ==
    {<<"user.slice">>, <<"docker">>, <<"kubepods">>, <<"containerd">>, <<"lxc">>,
     <<"kubepods", "docker">>}

\* /proc/<pid>/cgroup: open() or read() raises, or the text.
Cgroups == {[readable |-> FALSE, text |-> <<>>]}
           \cup {[readable |-> TRUE, text |-> t] : t \in CgroupTexts}

PsOutcomes == {"ok", "NoSuchProcess", "AccessDenied", "Other"}

\* A runtime nobody asks anything.
QuietDocker == [reachable |-> TRUE, listing |-> "notfound"]

\* What the outside world does while one entry of the list is handled.  The
\* container runtime matters only to a process inside some container.
PidWorlds ==
    {[cgroup |-> c, docker |-> d, ps |-> o] :
        c \in {x \in Cgroups : x.text \in {<<>>, <<"user.slice">>}},
        d \in {QuietDocker}, o \in PsOutcomes}
    \cup {[cgroup |-> c, docker |-> d, ps |-> o] :
        c \in {x \in Cgroups : x.text \notin {<<>>, <<"user.slice">>}},
        d \in {x \in DockerWorlds : x.listing # "foundNoPorts"}, o \in PsOutcomes}

ProcEnv(demo, binding, gpu, handle, computeOut, compute, graphicsOut, graphics) ==
    [demo |-> demo, binding |-> binding, gpu |-> gpu, handle |-> handle,
     computeOut |-> computeOut, compute |-> compute,
     graphicsOut |-> graphicsOut, graphics |-> graphics]

\* The argument is only handed to the driver and copied into the records:
\* the demo generator, which computes with it, is called with two values.
GpuArgs == 0..1

\* The calls that reach the driver's lists are made for the second of them.
ListedGpu == CHOOSE g \in GpuArgs : \A h \in GpuArgs : h <= g

\* Every call of get_gpu_processes the model considers.
ProcEnvs ==
    {ProcEnv(TRUE, TRUE, g, "ok", "ok", <<>>, "ok", <<>>) : g \in GpuArgs}
    \cup {ProcEnv(FALSE, FALSE, g, "ok", "ok", <<>>, "ok", <<>>) : g \in GpuArgs}
    \cup {ProcEnv(FALSE, TRUE, g, k, "ok", <<>>, "ok", <<>>) :
            g \in GpuArgs, k \in NvmlFailKinds}
    \cup {ProcEnv(FALSE, TRUE, ListedGpu, "ok", "ok", pr[1], "ok", pr[2]) :
            pr \in ListPairs}
    \cup {ProcEnv(FALSE, TRUE, ListedGpu, "ok", k, <<>>, "ok", pr[2]) :
            k \in NvmlFailKinds, pr \in ListPairs}
    \cup {ProcEnv(FALSE, TRUE, ListedGpu, "ok", "ok", pr[1], k, <<>>) :
            k \in NvmlFailKinds, pr \in ListPairs}
    \cup {ProcEnv(FALSE, TRUE, ListedGpu, "ok", k1, <<>>, k2, <<>>) :
            k1 \in NvmlFailKinds, k2 \in NvmlFailKinds}

\* GPUProcess(...)
GPUProcess(gpu_index, pid, name, cmdline, mem_mb, container, container_name, container_ports) ==
    [gpu_index |-> gpu_index, pid |-> pid, name |-> name, cmdline |-> cmdline,
     mem_mb |-> mem_mb, container |-> container,
     container_name |-> container_name, container_ports |-> container_ports]

RECURSIVE DemoProcLoop(_, _, _)
\* demo.py:30-46.  mem_mb is random.uniform(10, 2048); the model keeps 10.
DemoProcLoop(gpu_index, i, acc) ==
    IF i >= DemoProcCount THEN acc
    ELSE LET pid == 1000 + gpu_index * 10 + i
             is_container == (i % 3 = 0)
         IN  DemoProcLoop(gpu_index, i + 1,
                 Append(acc,
                    GPUProcess(gpu_index, pid, <<"proc">> \o Str(pid),
                        <<"/usr/bin/proc">> \o Str(pid) \o <<" --arg">>, 10,
                        is_container,
                        IF is_container THEN <<"demo-container-">> \o Str(pid)
                                        ELSE EmptyStr,
                        IF is_container THEN <<"8000", "->", "8000", ", ", "5432", "->", "5432">>
                                        ELSE EmptyStr)))

\* demo.get_demo_gpu_processes
GetDemoGpuProcesses(gpu_index) == DemoProcLoop(gpu_index, 0, <<>>)

\* process.py:28-42: the merged driver list, or the early return, or the
\* exception that escapes.  `how` is "list", "return" or "raise".
NvmlProcs(env) ==
    IF env.handle = "NVMLError" THEN [how |-> "return", list |-> <<>>, exc |-> "none"]
    ELSE IF env.handle # "ok" THEN [how |-> "raise", list |-> <<>>, exc |-> env.handle]
    ELSE IF env.computeOut \notin {"ok", "NVMLError"}
         THEN [how |-> "raise", list |-> <<>>, exc |-> env.computeOut]
    ELSE IF env.graphicsOut \notin {"ok", "NVMLError"}
         THEN [how |-> "raise", list |-> <<>>, exc |-> env.graphicsOut]
    ELSE [how |-> "list", exc |-> "none",
          list |-> (IF env.computeOut = "ok" THEN env.compute ELSE <<>>)
                   \o (IF env.graphicsOut = "ok" THEN env.graphics ELSE <<>>)]

\* `term in data` for a marker and the text of a control-group file.
Contains(term, data) == \E i \in 1..Len(data) : data[i] = term

\* The markers spelled as the container runtimes spell them.
RuntimeMarkers == {"docker", "kubepods", "containerd", "lxc"}

\* process.py:59
Terms == {"docker", "kubepols", "containerd", "lxc"}

\* The container check with a flag that a sentinel from the resolver resets.
ResolverFailureClearsFlag(pid, w, client, n) ==
    LET r == GetContainerInfo(pid, client, n, w.docker)
        flagged == w.cgroup.readable /\ \E term \in Terms : Contains(term, w.cgroup.text)
    IN  IF flagged
        THEN [is_container |-> r.ret # NoContainer, info |-> r.ret, client |-> r.client,
              n |-> r.n, resolved |-> TRUE]
        ELSE [is_container |-> FALSE, info |-> NoContainer, client |-> client,
              n |-> n, resolved |-> FALSE]

\* process.py:52-64: the container flag and the container fields, and the
\* resolver's handle afterwards.  Whatever is raised inside, open() and
\* read() included, is swallowed by `except Exception: pass`.
ContainerCheck(pid, w, client, n) ==
    IF ~w.cgroup.readable
    THEN [is_container |-> FALSE, info |-> NoContainer, client |-> client, n |-> n,
          resolved |-> FALSE]
    ELSE LET is_container == \E term \in Terms : Contains(term, w.cgroup.text)
             r == GetContainerInfo(pid, client, n, w.docker)
         IN  IF is_container
             THEN [is_container |-> TRUE, info |-> r.ret, client |-> r.client,
                   n |-> r.n, resolved |-> TRUE]
             ELSE [is_container |-> FALSE, info |-> NoContainer, client |-> client,
                   n |-> n, resolved |-> FALSE]

\* The process lookup without its except clause.
LookupFailureEscapes(pid, w) ==
    IF w.ps = "ok" THEN Ret(<<<<"python">>, <<"python", " ", "train.py">>, 512>>)
    ELSE Raise(w.ps)

\* process.py:66-74: name, command line and resident memory in MB, or the
\* exception that escapes.  psutil answers the same for every pid here.
ProcessLookup(pid, w) ==
    CASE w.ps = "ok" -> Ret(<<<<"python">>, <<"python", " ", "train.py">>, 512>>)
      [] w.ps \in {"NoSuchProcess", "AccessDenied"} ->
            Ret(<<<<"<unknown>">>, EmptyStr, 0>>)
      [] OTHER -> Raise(w.ps)


\* One pass of the loop body, process.py:46-87, for an entry with a pid not
\* seen before: the record to append, or the exception that escapes; the
\* resolver's handle afterwards; and the container fields as they stand at
\* process.py:64, before the process lookup.
HandleEntry(gpu_index, pid, w, client, n) ==
    LET c == ContainerCheck(pid, w, client, n)
        l == ProcessLookup(pid, w)
    IN  [exc |-> l.exc, client |-> c.client, n |-> c.n, resolved |-> c.resolved,
         is_container |-> c.is_container, info |-> c.info,
         rec |-> IF l.exc = "none"
                 THEN GPUProcess(gpu_index, pid, l.ret[1], l.ret[2], l.ret[3],
                                 c.is_container, c.info[1], c.info[2])
                 ELSE GPUProcess(gpu_index, pid, EmptyStr, EmptyStr, 0,
                                 FALSE, EmptyStr, EmptyStr)]

\* The loop's test without `pid in seen`.
SkipsOnlyMissingPid(pid, seenPids) == pid = NoPid

\* process.py:46-48: `if pid is None or pid in seen: continue`.
Skips(pid, seenPids) == pid = NoPid \/ pid \in seenPids

\* The entry handled last: its pid, its control-group file, how the process
\* lookup ended, whether the resolver was called, the container fields at
\* process.py:64, whether a record was appended.
Entry(pid, cgroup, ps, resolved, is_container, info, appended) ==
    [pid |-> pid, cgroup |-> cgroup, ps |-> ps, resolved |-> resolved,
     is_container |-> is_container, info |-> info, appended |-> appended]

NoEntry == Entry(NoPid, [readable |-> FALSE, text |-> <<>>], "ok", FALSE, FALSE,
                 NoContainer, FALSE)

\* The world of a process outside any container whose lookup succeeds.
PlainWorld == [cgroup |-> [readable |-> TRUE, text |-> <<"user.slice">>],
               docker |-> QuietDocker, ps |-> "ok"]

\* get_gpu_processes up to the loop: process.py:16-44.
PStart ==
    /\ pPc = "idle"
    /\ \E env \in ProcEnvs :
          /\ pEnv' = env
          /\ LET np == NvmlProcs(env)
             IN  IF env.demo
                 THEN /\ procs' = GetDemoGpuProcesses(env.gpu)
                      /\ pPc' = "done"
                      /\ nvml_procs' = <<>>
                 ELSE IF ~env.binding \/ np.how = "return"
                 THEN /\ procs' = <<>>
                      /\ pPc' = "done"
                      /\ nvml_procs' = <<>>
                 ELSE IF np.how = "raise"
                 THEN /\ procs' = <<>>
                      /\ pPc' = "raised"
                      /\ nvml_procs' = <<>>
                 ELSE /\ procs' = <<>>
                      /\ pPc' = "loop"
                      /\ nvml_procs' = np.list
    /\ pIdx' = 1
    /\ seen' = {}
    /\ cur' = NoEntry
    /\ UNCHANGED <<gpuVars, dockerVars, uiVars>>
    /\ UNCHANGED <<fnVars, cliVars>>

\* One entry of `for np in nvml_procs`: process.py:45-87.
PStep ==
    /\ pPc = "loop"
    /\ pIdx <= Len(nvml_procs)
    /\ LET pid == nvml_procs[pIdx]
       IN  IF Skips(pid, seen)
           THEN /\ pIdx' = pIdx + 1
                /\ cur' = [NoEntry EXCEPT !.pid = pid]
                /\ UNCHANGED <<pPc, seen, procs, dockerVars>>
           ELSE \E w \in PidWorlds :
                  \E h \in {HandleEntry(pEnv.gpu, pid, w, docker_client, fromEnvCalls)} :
                      /\ seen' = seen \cup {pid}
                      /\ docker_client' = h.client
                      /\ fromEnvCalls' = h.n
                      /\ cur' = Entry(pid, w.cgroup, w.ps, h.resolved, h.is_container,
                                       h.info, h.exc = "none")
                      /\ IF h.exc = "none"
                         THEN /\ procs' = Append(procs, h.rec)
                              /\ pIdx' = pIdx + 1
                              /\ pPc' = pPc
                         ELSE /\ pPc' = "raised"
                              /\ UNCHANGED <<procs, pIdx>>
    /\ UNCHANGED <<pEnv, nvml_procs, gpuVars, uiVars>>
    /\ UNCHANGED <<fnVars, cliVars>>

\* `return procs`: process.py:88.
PReturn ==
    /\ pPc = "loop"
    /\ pIdx > Len(nvml_procs)
    /\ pPc' = "done"
    /\ cur' = NoEntry
    /\ UNCHANGED <<pEnv, nvml_procs, pIdx, seen, procs, gpuVars, dockerVars, uiVars>>
    /\ UNCHANGED <<fnVars, cliVars>>

\* The caller has the result; the next call starts from any state the
\* resolver's handle may be in: none yet, or one acquired earlier.
PNext ==
    /\ pPc \in {"done", "raised"}
    /\ pPc' = "idle"
    /\ \E c \in {NoClient, 1} : docker_client' = c /\ fromEnvCalls' = c
    /\ nvml_procs' = <<>>
    /\ pIdx' = 1
    /\ seen' = {}
    /\ procs' = <<>>
    /\ cur' = NoEntry
    /\ pEnv' = ProcEnv(FALSE, FALSE, 0, "ok", "ok", <<>>, "ok", <<>>)
    /\ UNCHANGED <<gpuVars, uiVars>>
    /\ UNCHANGED <<fnVars, cliVars>>


RECURSIVE EntryLoop(_, _, _, _, _, _, _, _)
\* process.py:44-88 as one computation, every entry meeting the world w.
EntryLoop(gpu_index, list, i, seenPids, acc, w, client, n) ==
    IF i > Len(list) THEN [exc |-> "none", ret |-> acc, client |-> client, n |-> n]
    ELSE IF Skips(list[i], seenPids)
    THEN EntryLoop(gpu_index, list, i + 1, seenPids, acc, w, client, n)
    ELSE LET h == HandleEntry(gpu_index, list[i], w, client, n)
         IN  IF h.exc # "none"
             THEN [exc |-> h.exc, ret |-> <<>>, client |-> h.client, n |-> h.n]
             ELSE EntryLoop(gpu_index, list, i + 1, seenPids \cup {list[i]},
                            Append(acc, h.rec), w, h.client, h.n)

\* process.get_gpu_processes(gpu_index) as one computation: the list
\* returned or the exception that escapes, and the resolver's handle.
GetGpuProcesses(gpu_index, env, w, client, n) ==
    LET np == NvmlProcs(env)
        out(exc, ret) == [exc |-> exc, ret |-> ret, client |-> client, n |-> n]
    IN  IF env.demo THEN out("none", GetDemoGpuProcesses(gpu_index))
        ELSE IF ~env.binding \/ np.how = "return" THEN out("none", <<>>)
        ELSE IF np.how = "raise" THEN out(np.exc, <<>>)
        ELSE EntryLoop(gpu_index, np.list, 1, {}, <<>>, w, client, n)

\* ======================================================================
\* Application: ui.py
\* ======================================================================
\* textual.widgets.DataTable, as far as GPUApp uses it:
\*   clear()            removes every row and puts the cursor on row 0;
\*   add_row(...)       appends a row and leaves the cursor where it is;
\*   move_cursor(row=r) puts the cursor on row r;
\*   cursor_row         is always a row number, 0 in an empty table;
\*   get_row_at(r)[0]   is the first cell of row r, as it was added.
\* A RowHighlighted or RowSelected event carries the table it comes from and
\* that table's cursor row at the time it was posted.  Events and timer ticks
\* are handled one at a time, events in the order they were posted.

\* The first cell of the GPU table's placeholder row (ui.py:143-152).
GpuPlaceholder == Dash

\* The placeholder row of the process table (ui.py:155).
NoGpusRow == <<Dash, Dash>>

\* What the driver does during a tick of the application in live mode: no
\* device at all, or MaxGpus devices each of which answers every read or
\* fails with the driver's error (so that every sublist of 0..MaxGpus-1 is
\* fetched); or nvmlInit fails with an exception that is no NVMLError.
LiveGpuEnvs ==
    {GpuEnv(FALSE, TRUE, "Other", "ok", 0, <<>>),
     GpuEnv(FALSE, TRUE, "ok", "ok", 0, <<>>)}
    \cup {GpuEnv(FALSE, TRUE, "ok", "ok", MaxGpus, dev) :
            dev \in [1..MaxGpus -> {[failAt |-> "none", kind |-> "none", mw |-> 75000],
                                    [failAt |-> "handle", kind |-> "NVMLError", mw |-> 0]}]}

DemoGpuEnvs ==
    {GpuEnv(TRUE, TRUE, "ok", "ok", 0,
            [i \in 1..DemoGpuCount |-> [failAt |-> "none", kind |-> "none", mw |-> 10000]])}

UiGpuEnvs == IF demoMode THEN DemoGpuEnvs ELSE LiveGpuEnvs

\* What the driver and the process table do during a call of
\* get_gpu_processes made by the application in live mode: pids 1..c on the
\* compute list, processes outside any container, all looked up fine or all
\* with an exception psutil does not document.
LiveProcEnvs ==
    {[env |-> ProcEnv(FALSE, TRUE, 0, "ok", "ok", [i \in 1..c |-> i], "ok", <<>>),
      w |-> PlainWorld] : c \in 0..MaxUiProcs}
    \cup {[env |-> ProcEnv(FALSE, TRUE, 0, "ok", "ok", [i \in 1..c |-> i], "ok", <<>>),
           w |-> [PlainWorld EXCEPT !.ps = "Other"]] : c \in 1..MaxUiProcs}

DemoProcEnvs ==
    {[env |-> ProcEnv(TRUE, TRUE, 0, "ok", "ok", <<>>, "ok", <<>>), w |-> PlainWorld]}

UiProcEnvs == IF demoMode THEN DemoProcEnvs ELSE LiveProcEnvs

\* Rows that show the row number where str(g.index) belongs.
RowNumbers(stats) == [i \in 1..Len(stats) |-> Str(i - 1)]

\* The rows ui.py:175-184 add for a fetched list: str(g.index) first.
RECURSIVE GpuRows(_)
GpuRows(stats) ==
    IF Len(stats) = 0 THEN <<>>
    ELSE GpuRows(SubSeq(stats, 1, Len(stats) - 1)) \o <<Str(stats[Len(stats)].index)>>

\* The rows ui.py:210-220 add: str(p.gpu_index), str(p.pid), ...
RECURSIVE ProcRows(_)
ProcRows(ps) ==
    IF Len(ps) = 0 THEN <<>>
    ELSE ProcRows(SubSeq(ps, 1, Len(ps) - 1))
         \o <<<<Str(ps[Len(ps)].gpu_index), Str(ps[Len(ps)].pid)>>>>

\* The pids of a list of GPUProcess records.
RECURSIVE PidsOf(_)
PidsOf(ps) == IF Len(ps) = 0 THEN <<>>
              ELSE PidsOf(SubSeq(ps, 1, Len(ps) - 1)) \o <<ps[Len(ps)].pid>>

RECURSIVE IndicesOf(_)
IndicesOf(stats) == IF Len(stats) = 0 THEN <<>>
                    ELSE IndicesOf(SubSeq(stats, 1, Len(stats) - 1))
                         \o <<stats[Len(stats)].index>>

\* The result of _update_process_table: the process table's rows and cursor
\* afterwards, the exception that escapes ("none": it returns), the GPUs
\* get_gpu_processes was called for and the pids it returned, and the
\* resolver's handle.
Updated(exc, rows, cursor, fetched, ret, client, n) ==
    [exc |-> exc, rows |-> rows, cursor |-> cursor, fetched |-> fetched, ret |-> ret,
     client |-> client, n |-> n]

\* _update_process_table without its clear(): the new rows follow the old.
KeepsOldProcRows(row, rows, oldRows, oldCursor, pe, client, n) ==
    LET parsed == IF row < 0 \/ row >= Len(rows) THEN Raise("return")
                  ELSE ParseInt(rows[row + 1])
        gpu_index == parsed.ret
        r == GetGpuProcesses(gpu_index, pe.env, pe.w, client, n)
        new == oldRows \o ProcRows(r.ret)
    IN  IF parsed.exc # "none"
        THEN Updated("none", oldRows, oldCursor, <<>>, <<>>, client, n)
        ELSE IF r.exc # "none"
        THEN Updated(r.exc, oldRows, oldCursor, <<gpu_index>>, <<>>, r.client, r.n)
        ELSE IF Len(r.ret) = 0
        THEN Updated("none", Append(oldRows, <<Str(gpu_index), Dash>>), oldCursor,
                     <<gpu_index>>, <<>>, r.client, r.n)
        ELSE Updated("none", new, oldCursor, <<gpu_index>>, PidsOf(r.ret), r.client, r.n)

\* GPUApp._update_process_table(row), ui.py:194-225, on a GPU table holding
\* `rows` and a process table holding oldRows with its cursor on oldCursor.
\* ui.py:200-205: a row outside the table returns, and so does a first cell
\* int() does not take; the process table stays cleared.
UpdateProcessTable(row, rows, oldRows, oldCursor, pe, client, n) ==
    LET parsed == IF row < 0 \/ row >= Len(rows) THEN Raise("return")
                  ELSE ParseInt(rows[row + 1])
        gpu_index == parsed.ret
        r == GetGpuProcesses(gpu_index, pe.env, pe.w, client, n)
        new == ProcRows(r.ret)
    IN  IF parsed.exc # "none"
        THEN Updated("none", <<>>, 0, <<>>, <<>>, client, n)
        ELSE IF r.exc # "none"
        THEN Updated(r.exc, <<>>, 0, <<gpu_index>>, <<>>, r.client, r.n)
        ELSE IF Len(r.ret) = 0
        THEN Updated("none", <<<<Str(gpu_index), Dash>>>>, 0, <<gpu_index>>, <<>>,
                     r.client, r.n)
        ELSE Updated("none", new,
                     IF 0 <= oldCursor /\ oldCursor < Len(new) THEN oldCursor ELSE 0,
                     <<gpu_index>>, PidsOf(r.ret), r.client, r.n)

\* The cursor always goes back to where it was, however short the new list.
RestoresBeyondEnd(old_cursor, row_count) == old_cursor

\* ui.py:139-140 and 186-190: the GPU table's cursor after clear(), the
\* add_row() calls and the conditional move_cursor().
RestoreCursor(old_cursor, row_count) ==
    IF 0 <= old_cursor /\ old_cursor < row_count THEN old_cursor ELSE 0

NoEvent == [kind |-> "none", tbl |-> "none", row |-> 0]

\* The calls a handler makes to the two sources.
GpuStatsCall == [f |-> "get_gpu_stats", arg |-> 0]

ProcsCalls(fetched) ==
    [i \in 1..Len(fetched) |-> [f |-> "get_gpu_processes", arg |-> fetched[i]]]

\* What the handler that ran last did: `op` names it ("user" is the user or
\* the table acting, no handler); for _refresh, k is the cursor row it
\* remembered and stats the indices of the list it fetched; calls are the
\* calls to the sources in the order made; ret is the pids the last
\* get_gpu_processes returned; ev is the event handled.
Did(op, k, stats, calls, ret, ev) ==
    [op |-> op, k |-> k, stats |-> stats, calls |-> calls, ret |-> ret, ev |-> ev]

\* GPUApp._refresh, ui.py:136-192.
Refresh(op) ==
    \E ge \in UiGpuEnvs :
      \E g \in {GetGpuStats(ge)} :
        LET old_cursor == tableCursor
        IN  IF g.exc # "none"
            THEN /\ escaped' = TRUE
                 /\ last' = Did(op, old_cursor, <<>>, <<GpuStatsCall>>, <<>>, NoEvent)
                 /\ UNCHANGED <<tableRows, tableCursor, procRows, procCursor, dockerVars>>
            ELSE IF Len(g.ret) = 0
            THEN /\ tableRows' = <<GpuPlaceholder>>
                 /\ tableCursor' = 0
                 /\ procRows' = <<NoGpusRow>>
                 /\ procCursor' = 0
                 /\ last' = Did(op, old_cursor, <<>>, <<GpuStatsCall>>, <<>>, NoEvent)
                 /\ UNCHANGED <<escaped, dockerVars>>
            ELSE \E pe \in UiProcEnvs, rows \in {GpuRows(g.ret)} :
                  \E cursor \in {RestoreCursor(old_cursor, Len(rows))} :
                   \E u \in {UpdateProcessTable(cursor, rows, procRows, procCursor, pe,
                                                docker_client, fromEnvCalls)} :
                     /\ tableRows' = rows
                     /\ tableCursor' = cursor
                     /\ procRows' = u.rows
                     /\ procCursor' = u.cursor
                     /\ docker_client' = u.client
                     /\ fromEnvCalls' = u.n
                     /\ escaped' = (u.exc # "none")
                     /\ last' = Did(op, old_cursor, IndicesOf(g.ret),
                                     <<GpuStatsCall>> \o ProcsCalls(u.fetched), u.ret,
                                     NoEvent)

Mounted == last.op # "init"

\* GPUApp.on_mount, ui.py:71-78: starts the timer and refreshes at once.
OnMount ==
    /\ ~Mounted
    /\ Refresh("mount")
    /\ UNCHANGED <<queue, demoMode, gpuVars, procVars>>
    /\ UNCHANGED <<fnVars, cliVars>>

\* A tick of the one-second timer: GPUApp._refresh.
TimerTick ==
    /\ Mounted /\ ~escaped
    /\ Refresh("refresh")
    /\ UNCHANGED <<queue, demoMode, gpuVars, procVars>>
    /\ UNCHANGED <<fnVars, cliVars>>

Event(kind, tbl, row) == [kind |-> kind, tbl |-> tbl, row |-> row]

\* The user moves the cursor of the GPU table (up, down, a click): the table
\* posts RowHighlighted for the new row.
MoveGpuCursor ==
    /\ Mounted /\ ~escaped /\ Len(queue) < MaxQueue
    /\ \E r \in 0..(Len(tableRows) - 1) :
          /\ r # tableCursor
          /\ tableCursor' = r
          /\ queue' = Append(queue, Event("highlighted", "gpu", r))
    /\ last' = Did("user", 0, <<>>, <<>>, <<>>, NoEvent)
    /\ UNCHANGED <<tableRows, procRows, procCursor, escaped, demoMode,
                   gpuVars, procVars, dockerVars>>
    /\ UNCHANGED <<fnVars, cliVars>>

\* The GPU table posts an event for the row under its cursor: RowSelected on
\* Enter or a click on that row, RowHighlighted when the table itself
\* highlights its cursor row (a first row added, move_cursor).
PostGpuRowEvent ==
    /\ Mounted /\ ~escaped /\ Len(queue) < MaxQueue
    /\ Len(tableRows) > 0
    /\ \E kind \in {"highlighted", "selected"} :
          queue' = Append(queue, Event(kind, "gpu", tableCursor))
    /\ last' = Did("user", 0, <<>>, <<>>, <<>>, NoEvent)
    /\ UNCHANGED <<tableRows, tableCursor, procRows, procCursor, escaped, demoMode,
                   gpuVars, procVars, dockerVars>>
    /\ UNCHANGED <<fnVars, cliVars>>

\* The same for the process table (after Tab): the cursor moves there and
\* RowHighlighted is posted.
MoveProcCursor ==
    /\ Mounted /\ ~escaped /\ Len(queue) < MaxQueue
    /\ \E r \in 0..(Len(procRows) - 1) :
          /\ r # procCursor
          /\ procCursor' = r
          /\ queue' = Append(queue, Event("highlighted", "proc", r))
    /\ last' = Did("user", 0, <<>>, <<>>, <<>>, NoEvent)
    /\ UNCHANGED <<tableRows, tableCursor, procRows, escaped, demoMode,
                   gpuVars, procVars, dockerVars>>
    /\ UNCHANGED <<fnVars, cliVars>>

PostProcRowEvent ==
    /\ Mounted /\ ~escaped /\ Len(queue) < MaxQueue
    /\ Len(procRows) > 0
    /\ \E kind \in {"highlighted", "selected"} :
          queue' = Append(queue, Event(kind, "proc", procCursor))
    /\ last' = Did("user", 0, <<>>, <<>>, <<>>, NoEvent)
    /\ UNCHANGED <<tableRows, tableCursor, procRows, procCursor, escaped, demoMode,
                   gpuVars, procVars, dockerVars>>
    /\ UNCHANGED <<fnVars, cliVars>>

\* GPUApp.on_data_table_row_highlighted and on_data_table_row_selected,
\* ui.py:80-88, for the event at the head of the queue.
OnRowEvent ==
    /\ Mounted /\ ~escaped
    /\ Len(queue) > 0
    /\ LET ev == Head(queue)
       IN  /\ queue' = Tail(queue)
           /\ IF ev.tbl = "gpu"
              THEN \E pe \in UiProcEnvs :
                    \E u \in {UpdateProcessTable(ev.row, tableRows, procRows, procCursor,
                                                 pe, docker_client, fromEnvCalls)} :
                         /\ procRows' = u.rows
                         /\ procCursor' = u.cursor
                         /\ docker_client' = u.client
                         /\ fromEnvCalls' = u.n
                         /\ escaped' = (u.exc # "none")
                         /\ last' = Did("event", 0, <<>>, ProcsCalls(u.fetched), u.ret, ev)
              ELSE /\ last' = Did("event", 0, <<>>, <<>>, <<>>, ev)
                   /\ UNCHANGED <<procRows, procCursor, dockerVars, escaped>>
    /\ UNCHANGED <<tableRows, tableCursor, demoMode, gpuVars, procVars>>
    /\ UNCHANGED <<fnVars, cliVars>>

\* No function called on its own yet.
NoFn == [f |-> "none"]

\* The caller has the result of the call made last and may call again.
FnReturned ==
    /\ fnCall # NoFn
    /\ fnCall' = NoFn
    /\ fnRes' = NoCall
    /\ UNCHANGED <<acquireFailed, gpuVars, procVars, dockerVars, uiVars, cliVars>>

\* The pids the demo generator gives the processes of the first two GPUs.
DemoPids == {1000 + g * 10 + i : g \in 0..1, i \in 0..(DemoProcCount - 1)}

\* The pid of the live calls: the code hands it to psutil and reads what
\* psutil answers.
LivePid == CHOOSE pid \in DemoPids : \A other \in DemoPids : pid <= other

\* ======================================================================
\* Inference-server detection and discovery: triton_util.py
\* ======================================================================
\* None.
PyNone == <<"None">>

\* `term in data` for two texts: the pieces of term, in a row, within data.
IsSubstring(term, data) ==
    \E i \in 1..(Len(data) - Len(term) + 1) :
        SubSeq(data, i, i + Len(term) - 1) = term

\* str.lower(), piece by piece.
LowerPiece(piece) ==
    CASE piece = "TRITON" -> "triton"
      [] piece = "Triton" -> "triton"
      [] piece = "SERVER" -> "server"
      [] OTHER -> piece

Lower(text) == [i \in 1..Len(text) |-> LowerPiece(text[i])]

\* How a psutil call can end without an answer.
PsFailKinds == {"NoSuchProcess", "AccessDenied", "Other"}

\* Answers of p.name().
ProcNames == {<<"python">>, <<"triton", "server">>, <<"my-", "Triton">>}

\* Answers of p.exe(): "" for a path psutil cannot tell.
ExePaths ==
    {EmptyStr, <<"/usr/bin/", "python">>, <<"/opt/", "TRITON", "/bin/", "triton", "server">>,
     <<"/opt/", "triton", "/bin/", "python">>}

\* What psutil does during one call of is_triton_process: whether
\* psutil.Process(pid) and the three probes answer (out is "ok" or how the
\* call fails), and what they answer.
Probe(out, val) == [out |-> out, val |-> val]

NameProbes ==
    {Probe("ok", v) : v \in ProcNames} \cup {Probe(k, EmptyStr) : k \in PsFailKinds}

ExeProbes ==
    {Probe("ok", v) : v \in ExePaths} \cup {Probe(k, EmptyStr) : k \in PsFailKinds}

\* The environment either holds TRITON_MODEL_REPOSITORY or does not.
EnvProbes ==
    {Probe("ok", v) : v \in BOOLEAN} \cup {Probe(k, FALSE) : k \in PsFailKinds}

TritonWorld(proc, name, exe, env) == [proc |-> proc, name |-> name, exe |-> exe, env |-> env]

\* triton_util.is_triton_process(pid): triton_util.py:24-45.  The name and
\* the executable path are both read before either is looked at; an
\* exception of psutil other than AccessDenied and NoSuchProcess escapes.
IsTritonProcess(demo, pid, w) ==
    IF demo THEN Ret(pid % 5 = 0)
    ELSE IF w.proc # "ok"
         THEN (IF w.proc = "Other" THEN Raise("Other") ELSE Ret(FALSE))
    ELSE IF w.name.out # "ok"
         THEN (IF w.name.out = "Other" THEN Raise("Other") ELSE Ret(FALSE))
    ELSE IF w.exe.out # "ok"
         THEN (IF w.exe.out = "Other" THEN Raise("Other") ELSE Ret(FALSE))
    ELSE IF IsSubstring(<<"triton">>, Lower(w.name.val))
            \/ IsSubstring(<<"triton", "server">>, Lower(w.exe.val))
         THEN Ret(TRUE)
    ELSE IF w.env.out = "ok" THEN Ret(w.env.val)
    ELSE IF w.env.out = "Other" THEN Raise("Other")
    ELSE Ret(FALSE)

\* A call of is_triton_process.
DetectCall(demo, pid, w) == [f |-> "is_triton_process", demo |-> demo, pid |-> pid, w |-> w]

\* A world in which nothing is asked.
QuietTritonWorld ==
    TritonWorld("ok", Probe("ok", <<"python">>), Probe("ok", EmptyStr), Probe("ok", FALSE))

\* One call of is_triton_process(pid): in demo mode for any demo pid, live
\* under any behaviour of psutil.
CallIsTritonProcess ==
    /\ fnCall = NoFn
    /\ \/ \E pid \in DemoPids :
            /\ fnCall' = DetectCall(TRUE, pid, QuietTritonWorld)
            /\ fnRes' = IsTritonProcess(TRUE, pid, QuietTritonWorld)
       \/ \E proc \in {"ok"} \cup PsFailKinds, name \in NameProbes, exe \in ExeProbes,
             env \in EnvProbes :
            /\ fnCall' = DetectCall(FALSE, LivePid, TritonWorld(proc, name, exe, env))
            /\ fnRes' = IsTritonProcess(FALSE, LivePid, TritonWorld(proc, name, exe, env))
    /\ UNCHANGED <<acquireFailed, gpuVars, procVars, dockerVars, uiVars, cliVars>>

\* ---------------------------------------------------- server discovery
\* triton_util.py:57
StandardPorts == <<8000, 8001, 8002>>

\* The pieces a port string is made of here: two port numbers, the arrow
\* between host and container port, the comma, a blank, and a piece that is
\* none of these.
PortPieces == {"9000", "8001", "->", ",", " ", "x"}

\* The number a piece of digits stands for.
PieceVal(piece) == IF piece = "9000" THEN 9000 ELSE 8001

IsNumeral(piece) == piece \in {"9000", "8001"}

\* str.split(sep): the parts between the separators, empty parts included.
RECURSIVE Split(_, _)
Split(text, sep) ==
    IF \A i \in 1..Len(text) : text[i] # sep THEN <<text>>
    ELSE LET i == CHOOSE j \in 1..Len(text) :
                      text[j] = sep /\ \A k \in 1..(j - 1) : text[k] # sep
         IN  <<SubSeq(text, 1, i - 1)>> \o Split(SubSeq(text, i + 1, Len(text)), sep)

\* str.strip(): leading and trailing blanks removed.
RECURSIVE Strip(_)
Strip(text) ==
    IF Len(text) = 0 THEN text
    ELSE IF text[1] = " " THEN Strip(Tail(text))
    ELSE IF text[Len(text)] = " " THEN Strip(SubSeq(text, 1, Len(text) - 1))
    ELSE text

\* The value of a row of numeral pieces.  Two numerals or more in a row
\* spell a number above 65535, which no socket takes as a port: all of these
\* are the one number 65536 here.
NumeralsVal(text) == IF Len(text) = 1 THEN PieceVal(text[1]) ELSE 65536

\* triton_util.py:66: int(part.split("→")[0].strip()); ValueError for
\* anything but digits.
HostPort(part) ==
    LET digits == Strip(Split(part, "->")[1])
    IN  IF Len(digits) = 0 \/ \E i \in 1..Len(digits) : ~IsNumeral(digits[i])
        THEN Raise("ValueError")
        ELSE Ret(NumeralsVal(digits))

\* triton_util._is_port_open("localhost", port), the ports in `open`
\* accepting connections: connect_ex answers 0 for these; a port number no
\* socket takes raises inside the try and gives False.
IsPortOpen(port, open) == port \in open

\* f"http://localhost:{port}"
Url(port) == <<"http://localhost:">> \o Str(port)

\* What find_triton_server_url gives: the URL or None, and the ports it
\* probed, in order.
Found(ret, probed) == [ret |-> ret, probed |-> probed]

\* triton_util.py:73-77
RECURSIVE StandardLoop(_, _, _)
StandardLoop(i, open, probed) ==
    IF i > Len(StandardPorts) THEN Found(PyNone, probed)
    ELSE IF IsPortOpen(StandardPorts[i], open)
         THEN Found(Url(StandardPorts[i]), Append(probed, StandardPorts[i]))
         ELSE StandardLoop(i + 1, open, Append(probed, StandardPorts[i]))

\* The loop over the parts in which a part that does not parse ends the loop.
RECURSIVE UnparsableEndsKnownPorts(_, _, _, _)
UnparsableEndsKnownPorts(parts, i, open, probed) ==
    IF i > Len(parts) THEN StandardLoop(1, open, probed)
    ELSE LET hp == HostPort(parts[i])
         IN  IF hp.exc # "none" THEN StandardLoop(1, open, probed)
             ELSE IF IsPortOpen(hp.ret, open)
             THEN Found(Url(hp.ret), Append(probed, hp.ret))
             ELSE UnparsableEndsKnownPorts(parts, i + 1, open, Append(probed, hp.ret))

\* triton_util.py:63-70, then the standard ports.
RECURSIVE KnownPortsLoop(_, _, _, _)
KnownPortsLoop(parts, i, open, probed) ==
    IF i > Len(parts) THEN StandardLoop(1, open, probed)
    ELSE LET hp == HostPort(parts[i])
         IN  IF hp.exc # "none" THEN KnownPortsLoop(parts, i + 1, open, probed)
             ELSE IF IsPortOpen(hp.ret, open)
             THEN Found(Url(hp.ret), Append(probed, hp.ret))
             ELSE KnownPortsLoop(parts, i + 1, open, Append(probed, hp.ret))

\* triton_util.find_triton_server_url(pid, container_ports); None and ""
\* both skip the known ports (triton_util.py:60).
FindTritonServerUrl(container_ports, open) ==
    IF container_ports = PyNone \/ container_ports = EmptyStr
    THEN StandardLoop(1, open, <<>>)
    ELSE KnownPortsLoop(Split(container_ports, ","), 1, open, <<>>)

\* The ports something may listen on.
ProbedPorts == {9000, 8000, 8001, 8002}

\* A call of find_triton_server_url.
FindCall(container_ports, open) ==
    [f |-> "find_triton_server_url", container_ports |-> container_ports, open |-> open]

\* One call of find_triton_server_url, for any port string and any set of
\* listening ports.
CallFindTritonServerUrl ==
    /\ fnCall = NoFn
    /\ \E container_ports \in SeqsUpTo(PortPieces, MaxPortsLen) \cup {PyNone},
          open \in SUBSET ProbedPorts :
            /\ fnCall' = FindCall(container_ports, open)
            /\ fnRes' = Ret(FindTritonServerUrl(container_ports, open))
    /\ UNCHANGED <<acquireFailed, gpuVars, procVars, dockerVars, uiVars, cliVars>>

\* ------------------------------------------------------- model listing
\* A record of result["models"]: the name, and whether the "config" and the
\* "stats" keys are there.
ModelData(name, config, stats) == [name |-> name, config |-> config, stats |-> stats]

\* get_triton_models' result: "server_status" as the key it holds ("none"
\* for the empty dict).
ModelsResult(models, server_status, error) ==
    [models |-> models, server_status |-> server_status, error |-> error]

\* What an inference server does during one call of get_triton_models:
\* creating the client, the liveness check ("live", "dead", "throws"), the
\* metadata, the repository index, and for each model of the index whether
\* the entry has a name attribute, the config fetch and the statistics
\* fetch ("empty": no statistics).
ModelFetches ==
    [named : BOOLEAN, config : {"ok", "throws"}, stats : {"ok", "empty", "throws"}]

\* triton_util.py:132: the name of entry i of the index, "unknown" for an
\* entry without a name attribute.
ModelName(tm, i) == IF tm.models[i].named THEN <<"model-">> \o Str(i) ELSE <<"unknown">>

TritonServer(client, live, meta, index, models) ==
    [client |-> client, live |-> live, meta |-> meta, index |-> index, models |-> models]

\* The loop in which a model whose config or statistics fetch fails is
\* left out of the result.
RECURSIVE FailureSkipsModel(_, _, _)
FailureSkipsModel(tm, i, acc) ==
    IF i > Len(tm.models) THEN acc
    ELSE IF tm.models[i].config = "throws" \/ tm.models[i].stats = "throws"
    THEN FailureSkipsModel(tm, i + 1, acc)
    ELSE FailureSkipsModel(tm, i + 1,
            Append(acc, ModelData(ModelName(tm, i),
                                  tm.models[i].config = "ok",
                                  tm.models[i].stats = "ok")))

\* triton_util.py:130-155
RECURSIVE ModelLoop(_, _, _)
ModelLoop(tm, i, acc) ==
    IF i > Len(tm.models) THEN acc
    ELSE ModelLoop(tm, i + 1,
            Append(acc, ModelData(ModelName(tm, i),
                                  tm.models[i].config = "ok",
                                  tm.models[i].stats = "ok")))

\* triton_util.get_triton_models(server_url)
GetTritonModels(tm) ==
    LET status == IF tm.meta = "ok" THEN "version" ELSE "error"
    IN  IF tm.client # "ok"
        THEN ModelsResult(<<>>, "none", <<"Failed to connect to Triton: ", "e">>)
        ELSE IF tm.live = "throws"
        THEN ModelsResult(<<>>, "none", <<"Failed to connect to Triton: ", "e">>)
        ELSE IF tm.live = "dead"
        THEN ModelsResult(<<>>, "none", <<"Triton server not responding">>)
        ELSE IF tm.index # "ok"
        THEN ModelsResult(<<>>, status, <<"Failed to get models: ", "e">>)
        ELSE ModelsResult(ModelLoop(tm, 1, <<>>), status, PyNone)

\* Every server the model considers: at most MaxModels models in the index.
TritonServersOf(n) ==
    {TritonServer("ok", "live", meta, "ok", models) :
        meta \in {"ok", "throws"}, models \in [1..n -> ModelFetches]}

FailingServers ==
    {TritonServer("throws", "live", "ok", "ok", <<>>),
     TritonServer("ok", "throws", "ok", "ok", <<>>),
     TritonServer("ok", "dead", "ok", "ok", <<>>),
     TritonServer("ok", "live", "ok", "throws", <<>>),
     TritonServer("ok", "live", "throws", "throws", <<>>)}

ModelsCall(tm) == [f |-> "get_triton_models", tm |-> tm]

\* One call of get_triton_models, the server doing anything it can.
CallGetTritonModels ==
    /\ fnCall = NoFn
    /\ \/ \E tm \in FailingServers :
            /\ fnCall' = ModelsCall(tm)
            /\ fnRes' = Ret(GetTritonModels(tm))
       \/ \E n \in 0..MaxModels :
            \E tm \in TritonServersOf(n) :
               /\ fnCall' = ModelsCall(tm)
               /\ fnRes' = Ret(GetTritonModels(tm))
    /\ UNCHANGED <<acquireFailed, gpuVars, procVars, dockerVars, uiVars, cliVars>>

\* ------------------------------------------------------ get_triton_info
\* The dict get_triton_info returns.
Info(is_triton, server_url, models, error) ==
    [is_triton |-> is_triton, server_url |-> server_url, models |-> models, error |-> error]

\* demo.py:145-186: the four models of the demo server; inference counts and
\* the state of the third are random and left out.
DemoModels ==
    <<ModelData(<<"resnet50">>, TRUE, TRUE), ModelData(<<"bert-base">>, TRUE, TRUE),
      ModelData(<<"yolov8">>, TRUE, TRUE), ModelData(<<"gpt-neo-small">>, TRUE, TRUE)>>

\* get_demo_triton_info in which the inference servers are the pids ending
\* in 5.
PidsEndingInFive(pid, container_ports) ==
    IF pid % 10 # 5
    THEN Info(FALSE, PyNone, <<>>, <<"Process is not running Triton">>)
    ELSE Info(TRUE, Url(StandardPorts[1]), DemoModels, PyNone)

\* demo.get_demo_triton_info(pid, container_ports)
GetDemoTritonInfo(pid, container_ports) ==
    IF pid % 5 # 0
    THEN Info(FALSE, PyNone, <<>>, <<"Process is not running Triton">>)
    ELSE Info(TRUE, Url(StandardPorts[1]), DemoModels, PyNone)

\* What get_triton_info gives: the exception that escapes or the dict, and
\* the ports probed during the call.
Informed(exc, info, probed) == [exc |-> exc, ret |-> [info |-> info, probed |-> probed]]

\* get_triton_info in which a process is an inference server only once its
\* URL has been found.
DetectionNeedsUrl(demo, pid, container_ports, w, open, tm) ==
    LET d == IsTritonProcess(FALSE, pid, w)
        u == FindTritonServerUrl(container_ports, open)
        m == GetTritonModels(tm)
    IN  IF demo
        THEN Informed("none", GetDemoTritonInfo(pid, IF container_ports = PyNone
                                                     THEN EmptyStr ELSE container_ports),
                      <<>>)
        ELSE IF d.exc # "none" THEN Informed(d.exc, Info(FALSE, PyNone, <<>>, PyNone), <<>>)
        ELSE IF ~d.ret
        THEN Informed("none", Info(FALSE, PyNone, <<>>, <<"Process is not running Triton">>),
                      <<>>)
        ELSE IF u.ret = PyNone
        THEN Informed("none", Info(FALSE, PyNone, <<>>, <<"Could not find Triton server URL">>),
                      u.probed)
        ELSE Informed("none", Info(TRUE, u.ret, m.models, m.error), u.probed)

\* triton_util.get_triton_info(pid, container_ports): triton_util.py:166-203.
GetTritonInfo(demo, pid, container_ports, w, open, tm) ==
    LET d == IsTritonProcess(FALSE, pid, w)
        u == FindTritonServerUrl(container_ports, open)
        m == GetTritonModels(tm)
    IN  IF demo
        THEN Informed("none", GetDemoTritonInfo(pid, IF container_ports = PyNone
                                                     THEN EmptyStr ELSE container_ports),
                      <<>>)
        ELSE IF d.exc # "none" THEN Informed(d.exc, Info(FALSE, PyNone, <<>>, PyNone), <<>>)
        ELSE IF ~d.ret
        THEN Informed("none", Info(FALSE, PyNone, <<>>, <<"Process is not running Triton">>),
                      <<>>)
        ELSE IF u.ret = PyNone
        THEN Informed("none", Info(TRUE, PyNone, <<>>, <<"Could not find Triton server URL">>),
                      u.probed)
        ELSE Informed("none", Info(TRUE, u.ret, m.models, m.error), u.probed)

\* The processes get_triton_info is called for in live mode: an inference
\* server by its name, one by its environment alone, one whose path cannot
\* be read, a process that is none, one that is gone, one psutil fails on.
InfoWorlds ==
    {TritonWorld("ok", Probe("ok", <<"triton", "server">>), Probe("ok", EmptyStr),
                 Probe("ok", FALSE)),
     TritonWorld("ok", Probe("ok", <<"python">>), Probe("ok", <<"/usr/bin/", "python">>),
                 Probe("ok", TRUE)),
     TritonWorld("ok", Probe("ok", <<"triton", "server">>), Probe("AccessDenied", EmptyStr),
                 Probe("ok", FALSE)),
     TritonWorld("ok", Probe("ok", <<"python">>), Probe("ok", <<"/usr/bin/", "python">>),
                 Probe("AccessDenied", FALSE)),
     TritonWorld("NoSuchProcess", Probe("ok", <<"python">>), Probe("ok", EmptyStr),
                 Probe("ok", FALSE)),
     TritonWorld("Other", Probe("ok", <<"python">>), Probe("ok", EmptyStr),
                 Probe("ok", FALSE))}

\* The port strings it is called with: none, the empty one, a mapping of
\* port 9000, and one with an entry that does not parse.
InfoPorts == {PyNone, EmptyStr, <<"9000", "->", "8001">>, <<"x", ",", "9000">>}

\* The servers behind the URL found.
InfoServers ==
    {tm \in FailingServers : tm.meta = "ok"}
    \cup {TritonServer("ok", "live", "ok", "ok",
                       [i \in 1..MaxModels |-> [named |-> TRUE, config |-> "ok", stats |-> "ok"]])}

InfoCall(demo, pid, container_ports, w, open, tm) ==
    [f |-> "get_triton_info", demo |-> demo, pid |-> pid,
     container_ports |-> container_ports, w |-> w, open |-> open, tm |-> tm]

\* One call of get_triton_info(pid, container_ports).
CallGetTritonInfo ==
    /\ fnCall = NoFn
    /\ \/ \E pid \in DemoPids, container_ports \in InfoPorts :
            \E tm \in {TritonServer("ok", "live", "ok", "ok", <<>>)} :
               /\ fnCall' = InfoCall(TRUE, pid, container_ports, QuietTritonWorld, {}, tm)
               /\ fnRes' = GetTritonInfo(TRUE, pid, container_ports, QuietTritonWorld, {}, tm)
       \/ \E container_ports \in InfoPorts, w \in InfoWorlds, open \in SUBSET ProbedPorts,
             tm \in InfoServers :
               /\ fnCall' = InfoCall(FALSE, LivePid, container_ports, w, open, tm)
               /\ fnRes' = GetTritonInfo(FALSE, LivePid, container_ports, w, open, tm)
    /\ UNCHANGED <<acquireFailed, gpuVars, procVars, dockerVars, uiVars, cliVars>>

\* ======================================================================
\* process_info.py: get_process_details
\* ======================================================================
MaxOpenFiles == 10
MaxConnections == 5

\* The dict get_process_details returns.  env is the set of its items.
Details(pid, env, cwd, exe, status, open_files, connections, error) ==
    [pid |-> pid, env |-> env, cwd |-> cwd, exe |-> exe, status |-> status,
     open_files |-> open_files, connections |-> connections, error |-> error]

\* "key" in env
HasKey(env, key) == \E item \in env : item[1] = key

\* items[:cap]
Cap(items, cap) == SubSeq(items, 1, IF Len(items) < cap THEN Len(items) ELSE cap)

\* demo.py:55-75
FakeEnv(pid, is_triton) ==
    {<<"PATH", <<"/usr/local/sbin:/usr/local/bin:/usr/sbin:/usr/bin:/sbin:/bin">>>>,
     <<"CUDA_VISIBLE_DEVICES", <<"0,1">>>>,
     <<"USER", <<"ubuntu">>>>,
     <<"HOME", <<"/home/proc">> \o Str(pid)>>,
     <<"SHELL", <<"/bin/bash">>>>,
     <<"PWD", <<"/workspace">>>>,
     <<"LANG", <<"en_US.UTF-8">>>>,
     <<"LD_LIBRARY_PATH", <<"/usr/local/cuda/lib64:/opt/nvidia/lib64">>>>,
     <<"NVIDIA_VISIBLE_DEVICES", <<"all">>>>,
     <<"PYTHONUNBUFFERED", <<"1">>>>,
     <<"TF_CPP_MIN_LOG_LEVEL", <<"2">>>>}
    \cup (IF is_triton
          THEN {<<"TRITON_MODEL_REPOSITORY", <<"/models">>>>,
                <<"TRITON_METRICS_PORT", <<"8002">>>>,
                <<"TRITON_GRPC_PORT", <<"8001">>>>,
                <<"TRITON_HTTP_PORT", <<"8000">>>>}
          ELSE {})

OpenFile(path, fd) == [path |-> path, fd |-> fd]

\* demo.py:77-90
FakeOpenFiles(pid, is_triton) ==
    <<OpenFile(<<"/dev/nvidia0">>, 3), OpenFile(<<"/dev/nvidia1">>, 4),
      OpenFile(<<"/proc/">> \o Str(pid) \o <<"/stat">>, 5),
      OpenFile(<<"/var/log/app.log">>, 6), OpenFile(<<"/tmp/cache.db">>, 7)>>
    \o (IF is_triton
        THEN <<OpenFile(<<"/models/resnet50/config.pbtxt">>, 8),
               OpenFile(<<"/models/bert/model.pb">>, 9),
               OpenFile(<<"/var/log/triton.log">>, 10)>>
        ELSE <<>>)

Connection(laddr, raddr, status) ==
    [type |-> "socket", laddr |-> laddr, raddr |-> raddr, status |-> status]

\* demo.py:92-119
FakeConnections(is_triton) ==
    <<Connection("0.0.0.0:8000", "127.0.0.1:45000",
                 IF is_triton THEN "LISTEN" ELSE "ESTABLISHED"),
      Connection("127.0.0.1:45000", "192.168.1.100:5432", "ESTABLISHED"),
      Connection("127.0.0.1:45001", "10.0.0.50:6379", "ESTABLISHED")>>
    \o (IF is_triton THEN <<Connection("0.0.0.0:8001", "", "LISTEN")>> ELSE <<>>)

\* demo.get_demo_process_details(pid)
GetDemoProcessDetails(pid) ==
    LET is_triton == (pid % 5 = 0)
    IN  Details(pid, FakeEnv(pid, is_triton), <<"/workspace">>,
                IF is_triton THEN <<"/usr/bin/python3">> ELSE <<"/usr/bin/proc">> \o Str(pid),
                <<"running">>, FakeOpenFiles(pid, is_triton), FakeConnections(is_triton),
                PyNone)

\* What psutil does during one live call: the first of psutil.Process(pid),
\* p.exe(), p.cwd() and p.status() to raise ("none": none of them) and the
\* exception it raises, then the outcome of p.environ(), and for
\* p.open_files() and p.net_connections() the outcome and the number of
\* entries.
BasicSteps == {"process", "exe", "cwd", "status"}

Basics ==
    {[step |-> "none", kind |-> "ok"]} \cup [step : BasicSteps, kind : PsFailKinds]

FileCounts == {0, 2, MaxOpenFiles + 1}

ConnectionCounts == {0, 2, MaxConnections + 1}

Listing(out, n) == [out |-> out, n |-> n]

DetailWorld(basic, env, files, conns) ==
    [basic |-> basic, env |-> env, files |-> files, conns |-> conns]

\* The message of the except clause an exception lands in.
ErrorOf(kind, pid) ==
    IF kind = "NoSuchProcess" THEN <<"Process ">> \o Str(pid) \o <<" not found">>
    ELSE IF kind = "AccessDenied" THEN <<"Access denied for process ">> \o Str(pid)
    ELSE <<"e">>

LiveExe == <<"/usr/bin/", "python">>
LiveCwd == <<"/home">>
LiveStatus == <<"running">>
LiveEnviron == {<<"PATH", <<"/usr/bin">>>>}

\* process_info.py:46-48 and 54-62 on n entries
LiveFiles(n) == [i \in 1..n |-> OpenFile(<<"/file">> \o Str(i), i + 2)]
LiveConnections(n) == [i \in 1..n |-> Connection("127.0.0.1:80", "", "LISTEN")]

\* get_process_details without the except clauses of the sub-probes: a
\* denial in one of them goes to the outer handler like any exception.
DenialReachesOuterHandler(demo, pid, w) ==
    LET b == w.basic
        exe == IF b.step \in {"process", "exe"} THEN EmptyStr ELSE LiveExe
        cwd == IF b.step \in {"process", "exe", "cwd"} THEN EmptyStr ELSE LiveCwd
        status == IF b.step = "none" THEN LiveStatus ELSE EmptyStr
        env == IF w.env = "ok" THEN LiveEnviron ELSE {}
        files == IF w.files.out = "ok" THEN Cap(LiveFiles(w.files.n), MaxOpenFiles) ELSE <<>>
        conns == IF w.conns.out = "ok" THEN Cap(LiveConnections(w.conns.n), MaxConnections)
                 ELSE <<>>
    IN  IF demo THEN GetDemoProcessDetails(pid)
        ELSE IF b.step # "none"
        THEN Details(pid, {}, cwd, exe, status, <<>>, <<>>, ErrorOf(b.kind, pid))
        ELSE IF w.env # "ok"
        THEN Details(pid, env, cwd, exe, status, <<>>, <<>>, ErrorOf(w.env, pid))
        ELSE IF w.files.out # "ok"
        THEN Details(pid, env, cwd, exe, status, <<>>, <<>>, ErrorOf(w.files.out, pid))
        ELSE IF w.conns.out # "ok"
        THEN Details(pid, env, cwd, exe, status, files, <<>>, ErrorOf(w.conns.out, pid))
        ELSE Details(pid, env, cwd, exe, status, files, conns, PyNone)

\* process_info.get_process_details(pid): process_info.py:9-73.  exe, cwd
\* and status are stored as they are read; an exception of a sub-probe that
\* is neither AccessDenied nor NoSuchProcess goes to the outer handler.
GetProcessDetails(demo, pid, w) ==
    LET b == w.basic
        exe == IF b.step \in {"process", "exe"} THEN EmptyStr ELSE LiveExe
        cwd == IF b.step \in {"process", "exe", "cwd"} THEN EmptyStr ELSE LiveCwd
        status == IF b.step = "none" THEN LiveStatus ELSE EmptyStr
        env == IF w.env = "ok" THEN LiveEnviron
               ELSE IF w.env = "Other" THEN {}
               ELSE {<<"error", <<"Permission denied">>>>}
        files == IF w.files.out = "ok" THEN Cap(LiveFiles(w.files.n), MaxOpenFiles) ELSE <<>>
        conns == IF w.conns.out = "ok" THEN Cap(LiveConnections(w.conns.n), MaxConnections)
                 ELSE <<>>
    IN  IF demo THEN GetDemoProcessDetails(pid)
        ELSE IF b.step # "none"
        THEN Details(pid, {}, cwd, exe, status, <<>>, <<>>, ErrorOf(b.kind, pid))
        ELSE IF w.env = "Other"
        THEN Details(pid, env, cwd, exe, status, <<>>, <<>>, ErrorOf("Other", pid))
        ELSE IF w.files.out = "Other"
        THEN Details(pid, env, cwd, exe, status, <<>>, <<>>, ErrorOf("Other", pid))
        ELSE IF w.conns.out = "Other"
        THEN Details(pid, env, cwd, exe, status, files, <<>>, ErrorOf("Other", pid))
        ELSE Details(pid, env, cwd, exe, status, files, conns, PyNone)

DetailsCall(demo, pid, w) == [f |-> "get_process_details", demo |-> demo, pid |-> pid, w |-> w]

\* A world in which nothing is asked.
QuietDetailWorld ==
    DetailWorld([step |-> "none", kind |-> "ok"], "ok", Listing("ok", 0), Listing("ok", 0))

\* One call of get_process_details(pid): in demo mode for any demo pid, live
\* under any behaviour of psutil.
CallGetProcessDetails ==
    /\ fnCall = NoFn
    /\ \/ \E pid \in DemoPids :
            /\ fnCall' = DetailsCall(TRUE, pid, QuietDetailWorld)
            /\ fnRes' = Ret(GetProcessDetails(TRUE, pid, QuietDetailWorld))
       \/ \E basic \in Basics, env \in {"ok"} \cup PsFailKinds,
             fo \in {"ok"} \cup PsFailKinds, co \in {"ok"} \cup PsFailKinds :
            \E fn \in (IF fo = "ok" THEN FileCounts ELSE {0}),
               cn \in (IF co = "ok" THEN ConnectionCounts ELSE {0}) :
               \E w \in {DetailWorld(basic, env, Listing(fo, fn), Listing(co, cn))} :
                  /\ fnCall' = DetailsCall(FALSE, LivePid, w)
                  /\ fnRes' = Ret(GetProcessDetails(FALSE, LivePid, w))
    /\ UNCHANGED <<acquireFailed, gpuVars, procVars, dockerVars, uiVars, cliVars>>

\* ======================================================================
\* main.py: the command line
\* ======================================================================
\* ------------------------------------------------- json.dumps, json.loads
\* The text json.dumps writes, token by token (the white space of indent=2
\* lies between tokens): punctuation, strings, numbers, true/false.
Tok(t, v) == [t |-> t, v |-> v]

Punct(c) == Tok("punct", <<c>>)

\* ensure_ascii: the arrow of a port mapping is written as an escape.
EscapePiece(c) == IF c = "->" THEN "\\u2192" ELSE c

UnescapePiece(c) == IF c = "\\u2192" THEN "->" ELSE c

DumpStr(text) == Tok("str", [i \in 1..Len(text) |-> EscapePiece(text[i])])

DumpInt(n) == Tok("num", Str(n))

DumpBool(b) == Tok("lit", <<IF b THEN "true" ELSE "false">>)

\* "key": value
Member(key, tok) == <<DumpStr(<<key>>), Punct(":"), tok>>

\* GPUStats.model_dump() written out: the fields the model keeps.
DumpGpu(g) ==
    <<Punct("{")>> \o Member("index", DumpInt(g.index)) \o <<Punct(",")>>
    \o Member("power", DumpInt(g.power)) \o <<Punct("}")>>

\* GPUProcess.model_dump() written out.
DumpProc(proc) ==
    <<Punct("{")>> \o Member("gpu_index", DumpInt(proc.gpu_index)) \o <<Punct(",")>>
    \o Member("pid", DumpInt(proc.pid)) \o <<Punct(",")>>
    \o Member("name", DumpStr(proc.name)) \o <<Punct(",")>>
    \o Member("cmdline", DumpStr(proc.cmdline)) \o <<Punct(",")>>
    \o Member("mem_mb", DumpInt(proc.mem_mb)) \o <<Punct(",")>>
    \o Member("container", DumpBool(proc.container)) \o <<Punct(",")>>
    \o Member("container_name", DumpStr(proc.container_name)) \o <<Punct(",")>>
    \o Member("container_ports", DumpStr(proc.container_ports)) \o <<Punct("}")>>

Separator(i) == IF i > 1 THEN <<Punct(",")>> ELSE <<>>

RECURSIVE DumpGpus(_, _)
DumpGpus(stats, i) ==
    IF i > Len(stats) THEN <<>>
    ELSE Separator(i) \o DumpGpu(stats[i]) \o DumpGpus(stats, i + 1)

RECURSIVE DumpProcs(_, _)
DumpProcs(list, i) ==
    IF i > Len(list) THEN <<>>
    ELSE Separator(i) \o DumpProc(list[i]) \o DumpProcs(list, i + 1)

\* A dump that leaves out the GPUs without a process.
RECURSIVE OmitsEmptyLists(_, _)
OmitsEmptyLists(processes, i) ==
    IF i > Len(processes) THEN <<>>
    ELSE IF Len(processes[i].val) = 0 THEN OmitsEmptyLists(processes, i + 1)
    ELSE (IF \E j \in 1..(i - 1) : Len(processes[j].val) > 0 THEN <<Punct(",")>> ELSE <<>>)
         \o <<DumpStr(processes[i].key), Punct(":"), Punct("[")>>
         \o DumpProcs(processes[i].val, 1) \o <<Punct("]")>>
         \o OmitsEmptyLists(processes, i + 1)

\* The members of output["processes"], in insertion order.
RECURSIVE DumpProcesses(_, _)
DumpProcesses(processes, i) ==
    IF i > Len(processes) THEN <<>>
    ELSE Separator(i)
         \o <<DumpStr(processes[i].key), Punct(":"), Punct("[")>>
         \o DumpProcs(processes[i].val, 1) \o <<Punct("]")>>
         \o DumpProcesses(processes, i + 1)

\* json.dumps(output, indent=2), main.py:62
JsonDumps(output) ==
    <<Punct("{"), DumpStr(<<"gpus">>), Punct(":"), Punct("[")>>
    \o DumpGpus(output.gpus, 1)
    \o <<Punct("]"), Punct(","), DumpStr(<<"processes">>), Punct(":"), Punct("{")>>
    \o DumpProcesses(output.processes, 1)
    \o <<Punct("}"), Punct("}")>>

\* d[key] = val on a dict kept as its items in insertion order.
DictSet(d, key, val) ==
    IF \E j \in 1..Len(d) : d[j].key = key
    THEN [j \in 1..Len(d) |-> IF d[j].key = key THEN [key |-> key, val |-> val] ELSE d[j]]
    ELSE Append(d, [key |-> key, val |-> val])

\* What json.loads builds: k is "obj" (v the items), "arr" (v the elements)
\* or "atom" (v the token).
Json(k, v) == [k |-> k, v |-> v]

Parsed(val, next) == [val |-> val, next |-> next]

RECURSIVE ParseValue(_, _)
RECURSIVE ParseMembers(_, _, _)
RECURSIVE ParseElements(_, _, _)

\* The member whose value has been parsed, then the members after it.
MemberParsed(toks, acc, key, r) == ParseMembers(toks, r.next, DictSet(acc, key, r.val))

\* The element parsed, then the elements after it.
ElementParsed(toks, acc, r) == ParseElements(toks, r.next, Append(acc, r.val))

\* The members of an object from token i up to its closing brace.
ParseMembers(toks, i, acc) ==
    IF toks[i] = Punct("}") THEN Parsed(Json("obj", acc), i + 1)
    ELSE IF toks[i] = Punct(",") THEN ParseMembers(toks, i + 1, acc)
    ELSE MemberParsed(toks, acc,
                      [j \in 1..Len(toks[i].v) |-> UnescapePiece(toks[i].v[j])],
                      ParseValue(toks, i + 2))

\* The elements of an array from token i up to its closing bracket.
ParseElements(toks, i, acc) ==
    IF toks[i] = Punct("]") THEN Parsed(Json("arr", acc), i + 1)
    ELSE IF toks[i] = Punct(",") THEN ParseElements(toks, i + 1, acc)
    ELSE ElementParsed(toks, acc, ParseValue(toks, i))

\* The value that starts at token i, and the token after it.
ParseValue(toks, i) ==
    IF toks[i] = Punct("{") THEN ParseMembers(toks, i + 1, <<>>)
    ELSE IF toks[i] = Punct("[") THEN ParseElements(toks, i + 1, <<>>)
    ELSE Parsed(Json("atom", <<toks[i]>>), i + 1)

\* json.loads of a document json.dumps wrote
JsonLoads(toks) == ParseValue(toks, 1).val

\* obj[key] of a parsed object
Get(obj, key) == obj.v[CHOOSE j \in 1..Len(obj.v) : obj.v[j].key = key].val

\* ------------------------------------------------------------- main()
\* main(): pc is "start", "args" (arguments parsed, DEMO_MODE set), "loop"
\* (the for loop of main.py:54), "printed", "exited", "raised" (an exception
\* left main) or "tui" (app.run()); stats and fetched are the lists the
\* sources returned; output is the dict of main.py:53; stdout what print
\* wrote; exit the exit status once there is one; app whether GPUApp runs.
Main(pc, demo, query, stats, fetched, output, stdout, exit, app) ==
    [pc |-> pc, demo |-> demo, query |-> query, stats |-> stats, fetched |-> fetched,
     output |-> output, stdout |-> stdout, exit |-> exit, app |-> app]

Output(gpus, processes) == [gpus |-> gpus, processes |-> processes]

NotStarted ==
    Main("start", FALSE, FALSE, <<>>, <<>>, Output(<<>>, <<>>), <<>>, <<>>, FALSE)

\* main.py:23-44: the arguments, and DEMO_MODE set on every module.
MainParseArgs ==
    /\ cli.pc = "start"
    /\ \E demo \in BOOLEAN, query \in BOOLEAN :
          /\ cli' = [cli EXCEPT !.pc = "args", !.demo = demo, !.query = query]
          /\ demoMode' = demo
    /\ UNCHANGED <<tableRows, tableCursor, procRows, procCursor, queue, escaped, last>>
    /\ UNCHANGED <<gpuVars, procVars, dockerVars, fnVars>>

\* The driver during the query: any number of devices, each read fine or
\* skipped, or an initialisation that fails with another exception.
QueryGpuEnvsOf(c) ==
    {GpuEnv(FALSE, TRUE, "ok", "ok", c, dev) :
        dev \in [1..c -> {[failAt |-> "none", kind |-> "none", mw |-> 75000],
                          [failAt |-> "handle", kind |-> "NVMLError", mw |-> 0]}]}

QueryGpuFailures == {GpuEnv(FALSE, TRUE, "Other", "ok", 0, <<>>)}

\* The processes of one GPU during the query: pids 1..c on the compute
\* list, or a lookup that fails with an exception psutil does not document.
QueryProcEnvs ==
    {[env |-> ProcEnv(FALSE, TRUE, 0, "ok", "ok", [i \in 1..c |-> i], "ok", <<>>),
      w |-> PlainWorld] : c \in 0..MaxProcs}
    \cup {[env |-> ProcEnv(FALSE, TRUE, 0, "ok", "ok", <<1>>, "ok", <<>>),
           w |-> [PlainWorld EXCEPT !.ps = "Other"]]}

\* main.py:48-53: the GPU list is fetched and output is set up.
StatsFetched(g) ==
    IF g.exc # "none"
    THEN cli' = [cli EXCEPT !.pc = "raised", !.exit = <<1>>]
    ELSE cli' = [cli EXCEPT !.pc = "loop", !.stats = g.ret, !.output = Output(g.ret, <<>>)]

MainFetchStats ==
    /\ cli.pc = "args"
    /\ cli.query
    /\ \/ /\ cli.demo
          /\ \E env \in DemoGpuEnvs : StatsFetched(GetGpuStats(env))
       \/ /\ ~cli.demo
          /\ \E env \in QueryGpuFailures : StatsFetched(GetGpuStats(env))
       \/ /\ ~cli.demo
          /\ \E c \in 0..MaxDevices :
                \E env \in QueryGpuEnvsOf(c) : StatsFetched(GetGpuStats(env))
    /\ UNCHANGED <<gpuVars, procVars, dockerVars, uiVars, fnVars>>

\* main.py:54-61: one turn of the loop, for the GPU after those done.
MainFetchProcesses ==
    /\ cli.pc = "loop"
    /\ Len(cli.fetched) < Len(cli.stats)
    /\ \E pe \in (IF cli.demo THEN DemoProcEnvs ELSE QueryProcEnvs) :
         \E gpu \in {cli.stats[Len(cli.fetched) + 1]} :
           \E r \in {GetGpuProcesses(gpu.index, pe.env, pe.w, docker_client, fromEnvCalls)} :
              /\ docker_client' = r.client
              /\ fromEnvCalls' = r.n
              /\ IF r.exc # "none"
                 THEN cli' = [cli EXCEPT !.pc = "raised", !.exit = <<1>>]
                 ELSE cli' = [cli EXCEPT
                                !.fetched = Append(@, r.ret),
                                !.output = Output(@.gpus,
                                                  DictSet(@.processes, Str(gpu.index), r.ret))]
    /\ UNCHANGED <<gpuVars, procVars, uiVars, fnVars>>

\* main.py:62: print(json.dumps(output, indent=2))
MainPrint ==
    /\ cli.pc = "loop"
    /\ Len(cli.fetched) = Len(cli.stats)
    /\ cli' = [cli EXCEPT !.pc = "printed", !.stdout = JsonDumps(cli.output)]
    /\ UNCHANGED <<gpuVars, procVars, dockerVars, uiVars, fnVars>>

\* main.py:63: sys.exit(0)
MainExit ==
    /\ cli.pc = "printed"
    /\ cli' = [cli EXCEPT !.pc = "exited", !.exit = <<0>>]
    /\ UNCHANGED <<gpuVars, procVars, dockerVars, uiVars, fnVars>>

\* main.py:66-68: the interactive application.
MainRunApp ==
    /\ cli.pc = "args"
    /\ ~cli.query
    /\ cli' = [cli EXCEPT !.pc = "tui", !.app = TRUE]
    /\ UNCHANGED <<gpuVars, procVars, dockerVars, uiVars, fnVars>>

\* ======================================================================
\* Specifications
\* ======================================================================
\* The state after construction: nothing called, both tables empty
\* (compose(), ui.py:30-69), no container-runtime handle (docker_util.py:8).
Constructed ==
    /\ gEnv = GpuEnv(FALSE, FALSE, "ok", "ok", 0, <<>>)
    /\ gRes = NoCall
    /\ pPc = "idle"
    /\ pEnv = ProcEnv(FALSE, FALSE, 0, "ok", "ok", <<>>, "ok", <<>>)
    /\ nvml_procs = <<>>
    /\ pIdx = 1
    /\ seen = {}
    /\ procs = <<>>
    /\ cur = NoEntry
    /\ docker_client = NoClient
    /\ fromEnvCalls = 0
    /\ tableRows = <<>>
    /\ tableCursor = 0
    /\ procRows = <<>>
    /\ procCursor = 0
    /\ queue = <<>>
    /\ escaped = FALSE
    /\ last = Did("init", 0, <<>>, <<>>, <<>>, NoEvent)
    /\ fnCall = NoFn
    /\ fnRes = NoCall
    /\ acquireFailed = FALSE
    /\ cli = NotStarted

\* main() sets DEMO_MODE from the command line before anything runs.
Init == Constructed /\ demoMode \in BOOLEAN

\* The functions called on their own take the mode as part of each call.
InitCalls == Constructed /\ demoMode = FALSE

\* The application: main() has set the mode, GPUApp().run() mounts it.
Next ==
    \/ OnMount
    \/ TimerTick
    \/ MoveGpuCursor
    \/ PostGpuRowEvent
    \/ MoveProcCursor
    \/ PostProcRowEvent
    \/ OnRowEvent

Spec == Init /\ [][Next]_vars

\* The telemetry source alone: any number of calls of get_gpu_stats.
NextGpu ==
    \/ CallGetGpuStats
    \/ GpuStatsTaken

SpecGpu == InitCalls /\ [][NextGpu]_vars

\* The process enumerator alone: calls of get_gpu_processes, step by step.
NextProc ==
    \/ PStart
    \/ PStep
    \/ PReturn
    \/ PNext

SpecProc == InitCalls /\ [][NextProc]_vars
\* The container resolver alone: any number of calls of get_container_info.
NextDocker ==
    \/ CallGetContainerInfo

SpecDocker == InitCalls /\ [][NextDocker]_vars


\* The functions behind the process screens, each called on its own.
NextInspect ==
    \/ CallIsTritonProcess
    \/ CallFindTritonServerUrl
    \/ CallGetTritonModels
    \/ CallGetTritonInfo
    \/ CallGetProcessDetails
    \/ FnReturned

SpecInspect == InitCalls /\ [][NextInspect]_vars

\* The program run from the command line.
NextCli ==
    \/ MainParseArgs
    \/ MainFetchStats
    \/ MainFetchProcesses
    \/ MainPrint
    \/ MainExit
    \/ MainRunApp

SpecCli == InitCalls /\ [][NextCli]_vars

\* ======================================================================
\* Properties of the application (Spec)
\* ======================================================================
\* A refresh that fetched a non-empty GPU list has just run.
Refreshed == last.op \in {"mount", "refresh"} /\ Len(last.stats) >= 1

\* The GPU shown in row r of the GPU table (r counts from 0).
GpuShownIn(r) == ParseInt(tableRows[r + 1]).ret

\* The row the cursor of the GPU table is on shows a GPU.
CursorOnGpuRow == tableCursor \in 0..(Len(last.stats) - 1)

\* C1 as the specification states it: after _refresh with the cursor on row
\* k before and a non-empty fetched list of m GPUs, the selection is row k
\* when k < m, and there is no selection otherwise (the cursor is on no GPU
\* row and no GPU's process list is loaded).
C1_NoSelectionBeyondEnd ==
    Refreshed =>
        IF last.k < Len(last.stats)
        THEN tableCursor = last.k
        ELSE ~CursorOnGpuRow /\ last.calls = <<GpuStatsCall>>

\* C1, amended: after _refresh with the cursor on row k before and a
\* non-empty fetched list of m GPUs, the cursor is on row k when k < m and
\* on row 0 otherwise, and the process list asked for is that of the GPU
\* shown in that row.
C1_SelectionContinuity ==
    Refreshed =>
        LET row == IF last.k < Len(last.stats) THEN last.k ELSE 0
        IN  /\ tableCursor = row
            /\ last.calls = <<GpuStatsCall>> \o ProcsCalls(<<last.stats[row + 1]>>)

\* A refresh found the list shorter than the row its cursor was on.
C1_Witness ==
    /\ last.op = "refresh"
    /\ Len(last.stats) >= 1
    /\ last.k >= Len(last.stats)
    /\ tableCursor = 0

\* C2: after a timer tick whose GPU fetch returned a non-empty list, the GPU
\* table holds exactly one row per fetched record, in fetch order, and the
\* calls of the cycle are the GPU fetch followed by one process fetch, for
\* the GPU shown in the row under the GPU table's cursor.
C2_RefreshCycle ==
    Refreshed =>
        /\ Len(tableRows) = Len(last.stats)
        /\ \A i \in 1..Len(last.stats) : tableRows[i] = Str(last.stats[i])
        /\ CursorOnGpuRow
        /\ last.calls = <<GpuStatsCall>> \o ProcsCalls(<<GpuShownIn(tableCursor)>>)

\* A tick with the cursor on the second row fetched a list of one GPU, not
\* GPU 0: the table holds that one row and its processes were asked for.
C2_Witness ==
    /\ last.op = "refresh"
    /\ last.k = 1
    /\ last.stats = <<1>>
    /\ tableRows = <<Str(1)>>
    /\ last.calls = <<GpuStatsCall>> \o ProcsCalls(<<1>>)

\* The rows _update_process_table shows for the pids returned for a GPU.
ShownFor(gpu, pids) ==
    IF Len(pids) = 0 THEN <<<<Str(gpu), Dash>>>>
    ELSE [i \in 1..Len(pids) |-> <<Str(gpu), Str(pids[i])>>]

\* C3: handling a row-highlighted or row-selected event never fetches the
\* GPU list and leaves the GPU table's rows and cursor as they are; for an
\* event of the GPU table on a row r that shows a GPU, the one call made is
\* the process fetch for that GPU and, once it returns, the process table
\* holds exactly its processes; an event of the process table changes
\* neither table and fetches nothing.
C3_RowEventEffect ==
    [][last'.op = "event" =>
         /\ tableRows' = tableRows
         /\ tableCursor' = tableCursor
         /\ \A i \in 1..Len(last'.calls) : last'.calls[i] # GpuStatsCall
         /\ (last'.ev.tbl = "gpu" /\ last'.ev.row < Len(tableRows)
                /\ ParseInt(tableRows[last'.ev.row + 1]).exc = "none") =>
              /\ last'.calls = ProcsCalls(<<GpuShownIn(last'.ev.row)>>)
              /\ ~escaped' => procRows' = ShownFor(GpuShownIn(last'.ev.row), last'.ret)
         /\ last'.ev.tbl = "proc" =>
              /\ procRows' = procRows
              /\ procCursor' = procCursor
              /\ last'.calls = <<>>
      ]_vars

\* An event on the second GPU row has been handled: the process table shows
\* the processes of the GPU of that row, which is not the one shown before.
C3_Witness ==
    /\ last.op = "event"
    /\ last.ev.tbl = "gpu"
    /\ last.ev.row = 1
    /\ Len(last.ret) >= 1
    /\ Len(tableRows) >= 2
    /\ procRows = ShownFor(GpuShownIn(1), last.ret)

\* C4 as the specification states it: once the GPU fetch has returned no
\* record, the GPU table holds its one placeholder row, the process table
\* holds exactly one placeholder row, and no exception has escaped, whatever
\* ticks and row events follow.
C4_ZeroGpuPlaceholders ==
    (Mounted /\ tableRows = <<GpuPlaceholder>>) =>
        /\ procRows = <<NoGpusRow>>
        /\ ~escaped

\* ======================================================================
\* Properties of get_gpu_stats (SpecGpu)
\* ======================================================================
\* A call of get_gpu_stats has been made and its outcome is in gRes.
Called == gRes # NoCall

\* A live call that got as far as the device loop.
ReachedDevices ==
    /\ Called /\ ~gEnv.demo /\ gEnv.binding
    /\ gEnv.init = "ok" /\ gEnv.countOut = "ok"

\* Whatever fails during the call fails with the driver's error type.
DriverErrorsOnly ==
    /\ gEnv.init # "Other" /\ gEnv.countOut # "Other"
    /\ \A i \in 1..Len(gEnv.dev) : gEnv.dev[i].kind # "Other"

\* Device idx answered every read a record needs (the power read may fail).
Readable(idx) == gEnv.dev[idx + 1].failAt \in {"none", "power"}

\* The readable devices among idx..count-1, in order.
RECURSIVE ReadableFrom(_)
ReadableFrom(idx) ==
    IF idx >= gEnv.count THEN <<>>
    ELSE (IF Readable(idx) THEN <<idx>> ELSE <<>>) \o ReadableFrom(idx + 1)

\* C5 as the specification states it: whatever exception an external call
\* raises, the function returns a value; here for get_gpu_stats.
C5_NoExceptionEscapes == Called => gRes.exc = "none"

\* C6: a live call of get_gpu_stats returns the empty list when the driver
\* binding is absent, when initialisation fails, when the device-count query
\* fails (each with the driver's error), and when the count is zero.
C6_EmptyListOnNoDriver ==
    (/\ Called /\ ~gEnv.demo
     /\ \/ ~gEnv.binding
        \/ gEnv.init = "NVMLError"
        \/ gEnv.init = "ok" /\ gEnv.countOut = "NVMLError"
        \/ gEnv.init = "ok" /\ gEnv.countOut = "ok" /\ gEnv.count = 0)
    => gRes = Ret(<<>>)

\* The driver is there and its initialisation failed.
C6_Witness ==
    /\ Called /\ ~gEnv.demo /\ gEnv.binding
    /\ gEnv.init = "NVMLError"
    /\ gRes = Ret(<<>>)

\* C7: in a live call in which every failure is a driver error, the result
\* holds a record for device idx exactly when all of its reads other than
\* the power read succeeded, whatever the other devices did, and the power
\* of a record is 0 when the power read failed and the reading otherwise.
C7_PerDeviceIsolation ==
    (ReachedDevices /\ DriverErrorsOnly) =>
        /\ gRes.exc = "none"
        /\ IndicesOf(gRes.ret) = ReadableFrom(0)
        /\ \A i \in 1..Len(gRes.ret) :
              LET d == gEnv.dev[gRes.ret[i].index + 1]
              IN  gRes.ret[i].power = IF d.failAt = "power" THEN 0 ELSE d.mw

\* One device failed a read, the next failed only its power read and is in
\* the result with power 0, beside a device that answered everything.
C7_Witness ==
    /\ ReachedDevices /\ DriverErrorsOnly
    /\ gEnv.count = 3
    /\ gEnv.dev[1].failAt = "temp"
    /\ gEnv.dev[2].failAt = "power"
    /\ gEnv.dev[3].failAt = "none" /\ gEnv.dev[3].mw = 75000
    /\ gRes = Ret(<<GPUStats(1, 0), GPUStats(2, 75000)>>)

\* C8 as the specification states it: the index values of a returned list
\* of N records are exactly 0..N-1, live or demo, whatever reads failed.
C8_DenseIndices ==
    (Called /\ gRes.exc = "none") =>
        IndicesOf(gRes.ret) = [i \in 1..Len(gRes.ret) |-> i - 1]

\* C8, amended: the index values of a returned list are device indices of
\* the driver, strictly increasing and without duplicates: in demo mode
\* exactly 0..3; in live mode each below the device count and that of a
\* device whose reads succeeded, and exactly 0..N-1 when no device was
\* skipped before the last one returned.
C8_IndicesAreDeviceIndices ==
    (Called /\ gRes.exc = "none") =>
        LET ix == IndicesOf(gRes.ret)
            N == Len(ix)
        IN  /\ \A i \in 1..N : \A j \in 1..N : i < j => ix[i] < ix[j]
            /\ gEnv.demo => ix = [i \in 1..DemoGpuCount |-> i - 1]
            /\ ~gEnv.demo =>
                 /\ \A i \in 1..N : ix[i] \in 0..(gEnv.count - 1) /\ Readable(ix[i])
                 /\ (N > 0 /\ \A idx \in 0..ix[N] : Readable(idx))
                      => ix = [i \in 1..N |-> i - 1]

\* The first device was skipped and a later one returned: the list starts
\* above 0.
C8_Witness ==
    /\ ReachedDevices
    /\ gRes.exc = "none"
    /\ Len(gRes.ret) >= 1
    /\ gRes.ret[1].index >= 1

\* ======================================================================
\* Properties of get_gpu_processes (SpecProc)
\* ======================================================================
\* The pids the driver reported in the entries the loop has passed.
PassedPids == {nvml_procs[i] : i \in 1..(pIdx - 1)} \ {NoPid}

\* The pids in the list built so far.
ListedPids == {procs[i].pid : i \in 1..Len(procs)}

\* C9: in a live call every pid the driver reported is in the list built by
\* the entries passed so far, hence in the list returned; an entry whose
\* process lookup failed with NoSuchProcess or AccessDenied is not dropped
\* and raises nothing: its record has the name "<unknown>", an empty command
\* line, memory 0, and the container fields as determined before the lookup.
C9_ProcessesNeverDropped ==
    /\ (pPc \in {"loop", "done"} /\ ~pEnv.demo) => ListedPids = PassedPids
    /\ cur.ps \in {"NoSuchProcess", "AccessDenied"} =>
         /\ pPc # "raised"
         /\ cur.appended
         /\ Len(procs) >= 1
         /\ procs[Len(procs)] =
              GPUProcess(pEnv.gpu, cur.pid, <<"<unknown>">>, EmptyStr, 0,
                         cur.is_container, cur.info[1], cur.info[2])

\* The second entry of the list is that of a process inside a container the
\* resolver named, and its lookup was denied.
C9_Witness ==
    /\ pPc = "loop"
    /\ cur.ps = "AccessDenied"
    /\ cur.is_container
    /\ cur.info[1] # EmptyStr
    /\ Len(procs) = 2
    /\ procs[2].pid = cur.pid
    /\ procs[2].name = <<"<unknown>">>
    /\ procs[2].container_name = cur.info[1]

\* C10 as the specification states it: for an entry whose control-group
\* file was read, the container flag is true exactly when the text holds a
\* docker, kubernetes, containerd or lxc marker, and the resolver is called
\* exactly when the flag is true.
C10_MarkerDetection ==
    (cur.pid # NoPid /\ cur.cgroup.readable) =>
        /\ cur.is_container = (\E m \in RuntimeMarkers : Contains(m, cur.cgroup.text))
        /\ cur.resolved = cur.is_container

\* The entry handled last was read from a control-group file naming docker,
\* and its process lookup raised nothing the enumerator does not handle.
DockerEntry ==
    /\ cur.pid # NoPid
    /\ cur.cgroup.readable
    /\ Contains("docker", cur.cgroup.text)
    /\ cur.ps # "Other"

\* C11: a process whose control-group file contains "docker" is in the list
\* with container = true, the resolver having been asked; when the resolver
\* gave the sentinel ("", ""), the record still is there with container =
\* true and with empty container name and ports.
C11_DockerProcessKept ==
    DockerEntry =>
        /\ pPc # "raised"
        /\ cur.resolved
        /\ cur.appended
        /\ Len(procs) >= 1
        /\ procs[Len(procs)].pid = cur.pid
        /\ procs[Len(procs)].container
        /\ cur.info = NoContainer =>
             /\ procs[Len(procs)].container_name = EmptyStr
             /\ procs[Len(procs)].container_ports = EmptyStr

\* The resolver was asked about a docker process and gave the sentinel: the
\* record is in the list, flagged, without a container name.
C11_Witness ==
    /\ DockerEntry
    /\ cur.resolved
    /\ cur.info = NoContainer
    /\ cur.appended
    /\ procs[Len(procs)].pid = cur.pid
    /\ procs[Len(procs)].container
    /\ procs[Len(procs)].container_name = EmptyStr

\* The distinct pids of a driver list in the order of their first
\* occurrence, entries without a pid left out.
RECURSIVE FirstOccurrences(_)
FirstOccurrences(list) ==
    IF Len(list) = 0 THEN <<>>
    ELSE LET before == SubSeq(list, 1, Len(list) - 1)
             x == list[Len(list)]
         IN  IF x = NoPid \/ \E i \in 1..Len(before) : before[i] = x
             THEN FirstOccurrences(before)
             ELSE Append(FirstOccurrences(before), x)

\* What the two list queries of the call answered, compute list first; a
\* query that failed with the driver's error answered nothing.
Reported ==
    (IF pEnv.computeOut = "ok" THEN pEnv.compute ELSE <<>>)
    \o (IF pEnv.graphicsOut = "ok" THEN pEnv.graphics ELSE <<>>)

\* C18: the list a live call of get_gpu_processes returns has exactly one
\* record per distinct pid of the compute list followed by the graphics
\* list, in the order of first occurrence, a later occurrence of a pid
\* adding nothing; when one of the two queries failed with the driver's
\* error the list is that of the other query.
C18_UnionFirstOccurrence ==
    (pPc = "done" /\ ~pEnv.demo) => PidsOf(procs) = FirstOccurrences(Reported)

\* The compute query failed and the graphics list named one process twice:
\* the call returned that process once.
C18_Witness ==
    /\ pPc = "done"
    /\ ~pEnv.demo
    /\ pEnv.computeOut = "NVMLError"
    /\ Len(pEnv.graphics) = 2
    /\ pEnv.graphics[1] = pEnv.graphics[2]
    /\ Len(procs) = 1
    /\ procs[1].pid = pEnv.graphics[1]

\* ======================================================================
\* Properties of get_container_info (SpecDocker)
\* ======================================================================
\* C12 as the specification states it: once an attempt to acquire the
\* runtime's handle has failed, every later call of get_container_info
\* returns ("", "") and does not ask the runtime for a handle again.
C12_FailureIsPermanent ==
    (fnCall.f = "get_container_info" /\ fnCall.failedBefore) =>
        /\ fnRes.ret = NoContainer
        /\ fromEnvCalls = fnCall.n

\* C20: no handle is acquired before the first call of get_container_info,
\* and once a handle has been acquired every later call keeps that handle
\* and the runtime is not asked for another.
C20_HandleCreatedOnce ==
    /\ [](fnCall = NoFn => (docker_client = NoClient /\ fromEnvCalls = 0))
    /\ [][docker_client # NoClient =>
            (docker_client' = docker_client /\ fromEnvCalls' = fromEnvCalls)]_vars

\* A call that found the handle of an earlier call, kept it and resolved the
\* container with it.
C20_Witness ==
    /\ fnCall.f = "get_container_info"
    /\ fnCall.client # NoClient
    /\ docker_client = fnCall.client
    /\ fromEnvCalls = fnCall.n
    /\ fnRes.ret # NoContainer

\* ======================================================================
\* Properties of the functions behind the process screens (SpecInspect)
\* ======================================================================
\* A live call of is_triton_process in which psutil fails, where it fails,
\* with AccessDenied or NoSuchProcess.
LiveDetection ==
    /\ fnCall.f = "is_triton_process"
    /\ ~fnCall.demo
    /\ fnCall.w.proc # "Other"
    /\ fnCall.w.name.out # "Other"
    /\ fnCall.w.exe.out # "Other"
    /\ fnCall.w.env.out # "Other"

\* The three steps of the heuristic, each on its own: a probe that cannot be
\* read matches nothing.
NameMatches(w) ==
    w.proc = "ok" /\ w.name.out = "ok" /\ IsSubstring(<<"triton">>, Lower(w.name.val))

ExeMatches(w) ==
    w.proc = "ok" /\ w.exe.out = "ok"
    /\ IsSubstring(<<"triton", "server">>, Lower(w.exe.val))

EnvMatches(w) == w.proc = "ok" /\ w.env.out = "ok" /\ w.env.val

\* C13 as the specification states it: a live is_triton_process(pid) is
\* true when the name contains "triton", whether or not the executable path
\* and the environment can be read; otherwise when the path contains
\* "tritonserver"; otherwise when the environment holds
\* TRITON_MODEL_REPOSITORY; an unreadable probe is no match for its step only.
C13_FirstMatchWins ==
    LiveDetection =>
        fnRes = Ret(NameMatches(fnCall.w) \/ ExeMatches(fnCall.w) \/ EnvMatches(fnCall.w))

\* The host ports of a port string that parse, in listed order.
RECURSIVE HostPortsOf(_)
HostPortsOf(parts) ==
    IF Len(parts) = 0 THEN <<>>
    ELSE LET hp == HostPort(parts[Len(parts)])
             before == HostPortsOf(SubSeq(parts, 1, Len(parts) - 1))
         IN  IF hp.exc = "none" THEN Append(before, hp.ret) ELSE before

\* The sequence of ports discovery goes through for a port string.
Candidates(container_ports) ==
    (IF container_ports \in {PyNone, EmptyStr} THEN <<>>
     ELSE HostPortsOf(Split(container_ports, ",")))
    \o StandardPorts

LiveInfo ==
    /\ fnCall.f = "get_triton_info"
    /\ ~fnCall.demo
    /\ fnRes.exc = "none"

\* is_triton_process says the process of the call is an inference server.
Detected == IsTritonProcess(FALSE, fnCall.pid, fnCall.w) = Ret(TRUE)

\* No port discovery would go through accepts a connection.
NothingListens ==
    \A i \in 1..Len(Candidates(fnCall.container_ports)) :
        Candidates(fnCall.container_ports)[i] \notin fnCall.open

\* C14: a live get_triton_info for a process detected as an inference
\* server none of whose candidate ports accepts a connection gives is_triton
\* = true, server_url = None, no models and a non-empty error; for a process
\* not detected it gives is_triton = false, server_url = None, no models and
\* an error, and probes no port.
C14_DetectionApartFromReachability ==
    LiveInfo =>
        /\ (Detected /\ NothingListens) =>
             /\ fnRes.ret.info.is_triton
             /\ fnRes.ret.info.server_url = PyNone
             /\ fnRes.ret.info.models = <<>>
             /\ fnRes.ret.info.error \notin {PyNone, EmptyStr}
        /\ ~Detected =>
             /\ ~fnRes.ret.info.is_triton
             /\ fnRes.ret.info.server_url = PyNone
             /\ fnRes.ret.info.models = <<>>
             /\ fnRes.ret.info.error \notin {PyNone, EmptyStr}
             /\ fnRes.ret.probed = <<>>

\* An inference server by its name, port 9000 mapped and the standard ports
\* all probed, none listening: detected, and not reachable.
C14_Witness ==
    /\ LiveInfo
    /\ Detected
    /\ NothingListens
    /\ fnRes.ret.probed = <<9000, 8000, 8001, 8002>>
    /\ fnRes.ret.info.is_triton
    /\ fnRes.ret.info.server_url = PyNone

\* A live call of get_process_details.
LiveDetails ==
    /\ fnCall.f = "get_process_details"
    /\ ~fnCall.demo

\* C15: whenever get_process_details returns a record whose error field is
\* set, every other data field of the record is at its default: exe, cwd and
\* status empty strings, env the empty map, open_files and connections
\* empty, whichever step raised; and get_process_details never raises.
C15_ErrorExclusivity ==
    LiveDetails =>
        /\ fnRes.exc = "none"
        /\ fnRes.ret.error # PyNone =>
             /\ fnRes.ret.exe = EmptyStr
             /\ fnRes.ret.cwd = EmptyStr
             /\ fnRes.ret.status = EmptyStr
             /\ fnRes.ret.env = {}
             /\ fnRes.ret.open_files = <<>>
             /\ fnRes.ret.connections = <<>>

\* A demo-mode call of one of the three functions that tell whether a
\* process is an inference server.
DemoInference ==
    /\ fnCall.f \in {"is_triton_process", "get_triton_info", "get_process_details"}
    /\ fnCall.demo

\* What the call made says about the process being an inference server.
Answer ==
    IF fnCall.f = "is_triton_process" THEN fnRes.ret
    ELSE IF fnCall.f = "get_triton_info" THEN fnRes.ret.info.is_triton
    ELSE HasKey(fnRes.ret.env, "TRITON_MODEL_REPOSITORY")

Emitted == cli.pc \in {"printed", "exited"}

\* The document parsed back.
Document == JsonLoads(cli.stdout)

\* The number a parsed atom stands for.
NumberOf(atom) == ParseInt(atom.v[1].v).ret

\* The keys of a parsed object or of a dict, in order.
KeysOf(items) == [j \in 1..Len(items) |-> items[j].key]

\* The indices of the GPU records fetched, as the keys str(gpu.index).
FetchedKeys == [i \in 1..Len(cli.stats) |-> Str(cli.stats[i].index)]

\* C17: in query mode the document written has one entry under "gpus" per
\* GPU record fetched, in fetch order, and under "processes" exactly one key
\* per fetched GPU index, whose list has as many entries as the process list
\* obtained for that GPU; the document parsed back gives the same GPU count
\* and the same process counts per GPU; and the program exits with status 0
\* and never starts the interactive application.
C17_SnapshotRoundTrip ==
    /\ Emitted =>
         /\ cli.query
         /\ [i \in 1..Len(cli.output.gpus) |-> cli.output.gpus[i].index]
               = [i \in 1..Len(cli.stats) |-> cli.stats[i].index]
         /\ KeysOf(cli.output.processes) = FetchedKeys
         /\ \A i \in 1..Len(cli.stats) :
               Len(cli.output.processes[i].val) = Len(cli.fetched[i])
         /\ Document.k = "obj"
         /\ KeysOf(Document.v) = <<<<"gpus">>, <<"processes">>>>
         /\ Len(Get(Document, <<"gpus">>).v) = Len(cli.stats)
         /\ \A i \in 1..Len(cli.stats) :
               NumberOf(Get(Get(Document, <<"gpus">>).v[i], <<"index">>))
                  = cli.stats[i].index
         /\ KeysOf(Get(Document, <<"processes">>).v) = FetchedKeys
         /\ \A i \in 1..Len(cli.stats) :
               /\ Get(Document, <<"processes">>).v[i].val.k = "arr"
               /\ Len(Get(Document, <<"processes">>).v[i].val.v) = Len(cli.fetched[i])
    /\ cli.pc = "exited" => cli.exit = <<0>> /\ cli.stdout # <<>>
    /\ cli.query => ~cli.app

\* A live query that has exited: the first device skipped, the GPUs 1 and 2
\* fetched, the first with processes and the second with none.
C17_Witness ==
    /\ cli.pc = "exited"
    /\ ~cli.demo
    /\ FetchedKeys = <<Str(1), Str(2)>>
    /\ Len(cli.fetched[1]) > 0
    /\ Len(cli.fetched[2]) = 0
    /\ Len(Get(Document, <<"processes">>).v) = Len(cli.stats)

\* The outcomes of a sub-probe its own except clause is written for.
Degrading == {"ok", "AccessDenied", "NoSuchProcess"}

\* A live fetch whose process lookup and basic info succeed and whose
\* sub-probes answer or fail the way their except clauses expect.
BasicsSucceed ==
    /\ LiveDetails
    /\ fnCall.w.basic.step = "none"
    /\ fnCall.w.env \in Degrading
    /\ fnCall.w.files.out \in Degrading
    /\ fnCall.w.conns.out \in Degrading

\* The sub-probe outcomes the fetch could have met instead.
OtherListings(counts) ==
    {Listing("ok", n) : n \in counts} \cup {Listing(k, 0) : k \in Degrading \ {"ok"}}

\* C21: in a get_process_details fetch whose process lookup and basic info
\* succeed the error field stays unset; access-denied on the environment
\* gives env exactly {"error": "Permission denied"}, on open files an empty
\* open_files, on connections an empty connections; what one sub-probe
\* returns is the same whatever the other two do; and open_files never has
\* more than 10 entries, connections never more than 5.
C21_SubProbeDegradation ==
    /\ BasicsSucceed =>
         /\ fnRes.exc = "none"
         /\ fnRes.ret.error = PyNone
         /\ fnRes.ret.exe = LiveExe /\ fnRes.ret.cwd = LiveCwd /\ fnRes.ret.status = LiveStatus
         /\ fnCall.w.env = "AccessDenied" =>
               fnRes.ret.env = {<<"error", <<"Permission denied">>>>}
         /\ fnCall.w.files.out = "AccessDenied" => fnRes.ret.open_files = <<>>
         /\ fnCall.w.conns.out = "AccessDenied" => fnRes.ret.connections = <<>>
         /\ fnCall.w.env = "ok" => fnRes.ret.env = LiveEnviron
         /\ fnCall.w.files.out = "ok" =>
               /\ Len(fnRes.ret.open_files) <= fnCall.w.files.n
               /\ fnCall.w.files.n <= MaxOpenFiles =>
                     Len(fnRes.ret.open_files) = fnCall.w.files.n
         /\ fnCall.w.conns.out = "ok" =>
               /\ Len(fnRes.ret.connections) <= fnCall.w.conns.n
               /\ fnCall.w.conns.n <= MaxConnections =>
                     Len(fnRes.ret.connections) = fnCall.w.conns.n
         /\ \A env \in Degrading, files \in OtherListings(FileCounts),
               conns \in OtherListings(ConnectionCounts) :
               /\ GetProcessDetails(FALSE, fnCall.pid,
                     [fnCall.w EXCEPT !.files = files, !.conns = conns]).env
                    = fnRes.ret.env
               /\ GetProcessDetails(FALSE, fnCall.pid,
                     [fnCall.w EXCEPT !.env = env, !.conns = conns]).open_files
                    = fnRes.ret.open_files
               /\ GetProcessDetails(FALSE, fnCall.pid,
                     [fnCall.w EXCEPT !.env = env, !.files = files]).connections
                    = fnRes.ret.connections
    /\ fnCall.f = "get_process_details" =>
         /\ Len(fnRes.ret.open_files) <= MaxOpenFiles
         /\ Len(fnRes.ret.connections) <= MaxConnections

\* The environment denied, eleven open files and six connections listed:
\* ten and five of them returned, and no error.
C21_Witness ==
    /\ BasicsSucceed
    /\ fnCall.w.env = "AccessDenied"
    /\ fnCall.w.files = Listing("ok", MaxOpenFiles + 1)
    /\ fnCall.w.conns = Listing("ok", MaxConnections + 1)
    /\ Len(fnRes.ret.open_files) = MaxOpenFiles
    /\ Len(fnRes.ret.connections) = MaxConnections
    /\ fnRes.ret.error = PyNone

\* A call of get_triton_models in which the liveness check passes and the
\* repository index is returned.
IndexListed ==
    /\ fnCall.f = "get_triton_models"
    /\ fnCall.tm.client = "ok"
    /\ fnCall.tm.live = "live"
    /\ fnCall.tm.index = "ok"

\* C22: when the liveness check passes and the repository index lists n
\* models, the result of get_triton_models holds n model records in index
\* order whatever subset of the config and statistics fetches fails; a
\* failing fetch only leaves that one field out of that one model's record,
\* and no top-level error is set.
C22_PerModelIsolation ==
    IndexListed =>
        /\ fnRes.exc = "none"
        /\ Len(fnRes.ret.models) = Len(fnCall.tm.models)
        /\ \A i \in 1..Len(fnCall.tm.models) :
              /\ fnRes.ret.models[i].name = ModelName(fnCall.tm, i)
              /\ fnRes.ret.models[i].config = (fnCall.tm.models[i].config = "ok")
              /\ fnRes.ret.models[i].stats = (fnCall.tm.models[i].stats = "ok")
        /\ fnRes.ret.error = PyNone

\* Two models listed, the config fetch of the first and the statistics
\* fetch of the second failing: two records, each without that one field.
C22_Witness ==
    /\ IndexListed
    /\ Len(fnCall.tm.models) = 2
    /\ fnCall.tm.models[1].config = "throws" /\ fnCall.tm.models[1].stats = "ok"
    /\ fnCall.tm.models[2].config = "ok" /\ fnCall.tm.models[2].stats = "throws"
    /\ Len(fnRes.ret.models) = 2
    /\ ~fnRes.ret.models[1].config /\ fnRes.ret.models[1].stats
    /\ fnRes.ret.models[2].config /\ ~fnRes.ret.models[2].stats
    /\ fnRes.ret.error = PyNone

\* Every tick and every event posted so far has been handled, by handlers
\* that returned.
FullyHandled == Mounted /\ ~escaped /\ queue = <<>>

\* The GPU table holds rows of GPUs, not the placeholder.
RealGpuRows == Len(tableRows) > 0 /\ tableRows # <<GpuPlaceholder>>

=============================================================================
